---- MODULE Spec2Model ----
(***************************************************************************)
(* State-machine model of the test orchestration code of cassandra-dtest:  *)
(*   - upgrade_through_versions_test.py: the rolling / parallel upgrade    *)
(*     scenario, its writer and checker subprocesses, the queues between   *)
(*     them, _wait_until_queue_condition, _check_on_subprocs,              *)
(*     _terminate_subprocs and upgrade_to_version;                         *)
(*   - pushed_notifications_test.py: NotificationWaiter.                   *)
(***************************************************************************)
EXTENDS Integers, Sequences, FiniteSets, TLC

(***************************************************************************)
(* Bounds of the model.                                                    *)
(***************************************************************************)
\* rows written by all writer subprocesses together, when the pipelines are
\* followed on a one-version upgrade path
MaxWrites == 2
\* len(test_versions): the number of versions on the upgrade path
NumVersions == 2
\* len(test_versions) of a rolling upgrade followed node by node
NumRollingVersions == 3
\* Queue(maxsize=500) of verification_done_queue, scaled down
VerificationDoneMaxsize == 1
\* wait_for_rowcount=5000 of the rolling scenario, scaled down
WaitForRowcount == 1
\* max_wait_s of the scenario's queue waits (300 / 600 s), in sleeps of the loop
ScenarioMaxWaitS == 1
\* largest max_wait_s, required_len drawn for a lone _wait_until_queue_condition
MaxWaitArg == 2
\* notifications pushed to one NotificationWaiter
MaxNotifications == 2
\* git tags of the repository
MaxTags == 3
\* commitlog files node1 leaves behind in test_bad_crc and
\* test_compression_error, and the bytes that follow the header of one
MaxCrcFiles == 2
MaxBodyBytes == 2
\* files in the commitlog directory when _change_commitlog_perms is called
MaxPermFiles == 2
\* the parallel scenario followed through its data: len(test_versions), the
\* rows of one _write_values (num=100), the increments of one
\* _increment_counters (opcount=25000), its keys key1 (range(10)) and key2
\* (randint(1, 10)), and the 100 of its two tests of fail_count, scaled down
NumParallelVersions == 3
RowsPerCall == 2
Opcount == 4
KeysPerCall == 1
NumKey2 == 2
FailLimit == 2
\* commitlog files looked at by _segment_size_test
MaxSegments == 3
\* queries made by the body of a with statement on a JolokiaAgent
MaxBodyOps == 2
\* cycles of restart_node_test (range(5) in the code), the notifications
\* node1 pushes during the test, and the timeout of its waits (60.0)
RestartCycles == 2
MaxRestartPushed == 5
RestartTimeout == 1
\* largest timeout and num_notifications passed to wait_for_notifications
MaxTimeout == 2
\* rows written by all writer subprocesses together, when the cluster is
\* followed through the upgrades: what the two waits for rows need
ScenarioWrites == 2

(***************************************************************************)
(* Program constants.                                                      *)
(***************************************************************************)
\* cluster.populate(3)
NumNodes == 3
\* Queue() of to_verify_queue: maxsize 0 means "no limit"
ToVerifyMaxsize == 0

\* restart_node_test: wait_for_notifications(..., num_notifications=3)
RestartNumNotifications == 3

Nodes == 1..NumNodes
Versions == 1..NumVersions
Pipelines == {"write", "counter"}
Procs == {"writer", "verifier", "incrementer", "count_verifier"}
Functions == {"data_writer", "data_checker", "counter_incrementer", "counter_checker"}

\* the local names of the two processes of each _start_continuous_* method
WriterOf(pl) == IF pl = "write" THEN "writer" ELSE "incrementer"
VerifierOf(pl) == IF pl = "write" THEN "verifier" ELSE "count_verifier"
PipelineOf(p) == IF p \in {"writer", "verifier"} THEN "write" ELSE "counter"

\* Process(target=...) as written in the two _start_continuous_* methods
ProcessTarget(p) ==
  CASE p = "writer" -> "data_writer"
    [] p = "verifier" -> "data_checker"
    [] p = "incrementer" -> "data_writer"
    [] p = "count_verifier" -> "data_checker"

VARIABLES
  \* --- the test (main) process ---
  rolling,        \* upgrade_scenario(rolling=...)
  test_versions,  \* len(self.test_versions)
  max_writes,     \* the rows the writers write before the model stops them
  m_pc,           \* position of the main process in the test
  m_pl,           \* the _start_continuous_* method being executed
  m_tag,          \* index in test_versions of the loop variable tag
  m_node,         \* index in cluster.nodelist() of the loop variable node
  m_exc,          \* exception that ended the test method ("none" if none)
  m_ret,          \* where the running helper call returns to
  \* --- subprocesses (multiprocessing.Process) ---
  subprocs,       \* self.subprocs
  pstate,         \* "new" (not started), "alive", "exited", "raised", "killed"
  target,         \* the function a started process runs
  sigterm,        \* SIGTERM sent by terminate() and not yet handled
  ppc,            \* position of each subprocess in its function
  plocal,         \* locals of each subprocess: key, val (expected), actual
  \* --- queues and database shared by the subprocesses ---
  to_verify_queue,
  verification_done_queue,
  table,          \* table[k]: value last written to row k (0: never written)
  nwrites,        \* number of writes started (uuid4 values are 1, 2, ...)
  nkeys,          \* number of fresh uuid4 keys drawn
  \* --- history of the pipelines ---
  pushed,         \* entries put on a to_verify_queue
  compared,       \* entries whose assertEqual passed
  failed,         \* entries whose assertEqual failed
  offered,        \* entries whose key a checker put on verification_done_queue
  \* --- _wait_until_queue_condition ---
  wq_pc, wq_queue, wq_opfunc, wq_required_len, wq_max_wait_s,
  wait_end_time, now, qsize, qsize_supported, wq_result, wq_observed,
  \* --- cluster nodes and upgrade_to_version ---
  running, install_dir, node_ver, drained, seen_drained, sstables_ver,
  topology_writes,
  u_pc, u_tag, u_partial, u_arg, u_nodes, u_i,
  \* --- NotificationWaiter ---
  keyspace,           \* self.keyspace ("none" for None)
  notifications,      \* self.notifications
  event,              \* self.event is set
  h_pc,               \* position of the driver thread in handle_notification
  h_notification,     \* its argument
  pushed_count,       \* notifications pushed by the node so far
  t_pc,               \* position of the test thread in the method it calls
  timeout,            \* arguments and locals of wait_for_notifications
  num_notifications,
  deadline,
  clock,              \* time.time() as read by wait_for_notifications
  returned,           \* the value of the last return statement
  \* --- restart_node_test ---
  cycle,              \* the cycle of its for loop being run (0: no such loop)
  \* --- a with statement on a JolokiaAgent ---
  j_pc,               \* position of the thread in the with statement
  j_starts,           \* calls of start()
  j_stops,            \* calls of stop()
  j_start_result,     \* "none", "ok" or "CalledProcessError"
  j_stop_result,
  j_body,             \* the queries the body has made, with their outcomes
  j_exc,              \* the exception the body raised ("none" if none)
  j_caller,           \* the exception that left the with statement
  \* --- _segment_size_test ---
  segment_size_in_mb, compressed,   \* its arguments
  commitlogs,         \* the sizes in bytes of the files _get_commitlog_files lists
  seg_i,              \* index of the file the for loop looks at next
  smaller_found,
  seg_result,         \* "running", "pass" or "AssertionError"
  \* --- the commit failure policy tests ---
  policy,             \* commit_failure_policy of node1
  is_win,             \* ccmlib.common.is_win()
  cl_pc,              \* position of the test
  cl_running,         \* node1.is_running()
  cl_perms,           \* permissions of the commitlog directory and files
  cl_log,             \* the messages in the log of node1
  cl_write, cl_read,  \* what the statements after the failure met
  cl_result,          \* "none", "passed" or "failed"
  \* --- latest_tag_matching ---
  ver_tuple,          \* its argument
  tags,               \* MAPPED_REFS['tags'].keys()
  lt_todo,            \* the tags the for loop has not visited yet
  wrappers,           \* the sorted list of GitSemVer objects
  lt_pc,
  latest,             \* the value returned: <<>> for None, <<git_ref>> otherwise
  \* --- the header corruption of test_bad_crc and test_compression_error ---
  cf_test,            \* "bad_crc" or "compression_error" ("none": neither)
  cf_orig,            \* the commitlog files as node1 left them, as sequences of bytes
  cf_disk,            \* the commitlog files as they are now
  cf_i,               \* index of the file the for loop works on
  cf_pc,              \* position in the body of the loop
  crc_pos,
  header_bytes,
  \* --- _change_commitlog_perms ---
  cp_mod,             \* its argument, as the set of permissions of the owner
  is_root,            \* the tests run as the superuser
  cp_dir,             \* mode of the commitlog directory
  cp_files,           \* modes of the files in it
  cp_commitlogs,      \* the local commitlogs: indices of the files glob.glob returned
  cp_i,               \* index in commitlogs of the for loop
  cp_pc,
  \* --- the data of the parallel scenario: _write_values, _increment_counters, _check_values, _check_counters ---
  pd_pc,              \* position of the scenario in the loop over the tags
  pd_tag,             \* index in test_versions of the loop variable tag
  row_values,         \* self.row_values
  wv_i,               \* the loop variable i of _write_values
  cf_writes,          \* cf_writes[x]: UPDATE statements executed for row x of cf
  expected_counts,    \* self.expected_counts, as a function of <<key1, key2>>
  completed,          \* completed[c]: increments of counter c that did not raise
  fail_count,         \* the local fail_count of _increment_counters
  ic_i,               \* the loop variable i of _increment_counters
  rows_read,          \* <<node, x>> read back by the last _check_values
  counters_compared   \* counters compared by the last _check_counters

mainVars == <<rolling, m_pc, m_pl, m_tag, m_node, m_exc, m_ret>>
procVars == <<subprocs, pstate, target, sigterm, ppc, plocal>>
dataVars == <<to_verify_queue, verification_done_queue, table, nwrites, nkeys>>
histVars == <<pushed, compared, failed, offered>>
waitVars == <<wq_pc, wq_queue, wq_opfunc, wq_required_len, wq_max_wait_s,
              wait_end_time, now, qsize, qsize_supported, wq_result, wq_observed>>
nodeVars == <<running, install_dir, node_ver, drained, seen_drained, sstables_ver,
              topology_writes>>
upVars == <<u_pc, u_tag, u_partial, u_arg, u_nodes, u_i>>

envVars == <<test_versions, max_writes>>
notifyVars == <<keyspace, notifications, event, h_pc, h_notification, pushed_count,
                t_pc, timeout, num_notifications, deadline, clock, returned>>
restartVars == <<cycle>>
jmxVars == <<j_pc, j_starts, j_stops, j_start_result, j_stop_result, j_body, j_exc, j_caller>>
\* the variables of the other test modules
segVars == <<segment_size_in_mb, compressed, commitlogs, seg_i, smaller_found, seg_result>>
policyVars == <<policy, is_win, cl_pc, cl_running, cl_perms, cl_log, cl_write, cl_read, cl_result>>
tagVars == <<ver_tuple, tags, lt_todo, wrappers, lt_pc, latest>>
crcVars == <<cf_test, cf_orig, cf_disk, cf_i, cf_pc, crc_pos, header_bytes>>
permVars == <<cp_mod, is_root, cp_dir, cp_files, cp_commitlogs, cp_i, cp_pc>>
parVars == <<pd_pc, pd_tag, row_values, wv_i, cf_writes, expected_counts, completed, fail_count, ic_i, rows_read, counters_compared>>
extVars == <<jmxVars, segVars, policyVars, tagVars, crcVars, permVars, parVars>>
\* the variables of the upgrade and notification tests
coreVars == <<envVars, restartVars, notifyVars, mainVars, procVars, dataVars, histVars,
              waitVars, nodeVars, upVars>>

vars == <<envVars, extVars, restartVars, notifyVars, mainVars, procVars, dataVars, histVars, waitVars, nodeVars, upVars>>

(***************************************************************************)
(* multiprocessing.Queue                                                   *)
(***************************************************************************)
\* (a put_nowait that never raises Full: the maxsize is not honoured)
QueueNeverFull(q, maxsize) == FALSE

\* put_nowait raises Full when the queue has a maxsize and holds that many entries
QueueFull(q, maxsize) == maxsize > 0 /\ Len(q) >= maxsize

NoLocals == [key |-> 0, val |-> 0, actual |-> 0]

IsAlive(p) == pstate[p] = "alive"

\* a subprocess ends: "raised" (uncaught exception), "exited" (exit(0) of the
\* SIGTERM handler) or "killed" (SIGKILL)
Ends(p, how) ==
  /\ pstate' = [pstate EXCEPT ![p] = how]
  /\ ppc' = [ppc EXCEPT ![p] = "ended"]
  /\ sigterm' = [sigterm EXCEPT ![p] = FALSE]

\* what a subprocess step leaves alone
ProcFrame == UNCHANGED <<envVars, extVars, restartVars, notifyVars, mainVars, waitVars, nodeVars, upVars, subprocs, target>>

(***************************************************************************)
(* Steps common to the four subprocess functions.                          *)
(***************************************************************************)
\* session = tester.patient_cql_connection(...); session.prepare(...);
\* signal.signal(SIGTERM, handle_sigterm).  Connecting may fail.
ProcConnect(p) ==
  /\ IsAlive(p) /\ ppc[p] = "connect"
  /\ \E ok \in BOOLEAN :
       IF ok
       THEN /\ ppc' = [ppc EXCEPT ![p] =
                         IF target[p] \in {"data_writer", "counter_incrementer"}
                         THEN "choose" ELSE "get"]
            /\ UNCHANGED <<pstate, sigterm>>
       ELSE Ends(p, "raised")
  /\ UNCHANGED <<plocal, dataVars, histVars>>
  /\ ProcFrame

\* handle_sigterm: queue.close(); exit(0).  Runs between any two steps of the
\* function once terminate() has sent the signal.
HandleSigterm(p) ==
  /\ IsAlive(p) /\ sigterm[p]
  /\ Ends(p, "exited")
  /\ UNCHANGED <<plocal, dataVars, histVars>>
  /\ ProcFrame

(***************************************************************************)
(* data_writer                                                             *)
(***************************************************************************)
\* key = None; maybe key = verification_done_queue.get_nowait();
\* key = key or uuid.uuid4(); val = uuid.uuid4()
DataWriterChoose(p) ==
  LET pl == PipelineOf(p) IN
  /\ IsAlive(p) /\ target[p] = "data_writer" /\ ppc[p] = "choose"
  /\ nwrites < max_writes
  /\ nwrites' = nwrites + 1
  /\ \E rewrite \in BOOLEAN :
       IF rewrite /\ verification_done_queue[pl] # <<>>
       THEN /\ plocal' = [plocal EXCEPT ![p] =
                 [key |-> Head(verification_done_queue[pl]), val |-> nwrites + 1,
                  actual |-> 0]]
            /\ verification_done_queue' =
                 [verification_done_queue EXCEPT ![pl] = Tail(@)]
            /\ UNCHANGED nkeys
       ELSE /\ plocal' = [plocal EXCEPT ![p] =
                 [key |-> nkeys + 1, val |-> nwrites + 1, actual |-> 0]]
            /\ nkeys' = nkeys + 1
            /\ UNCHANGED verification_done_queue
  /\ ppc' = [ppc EXCEPT ![p] = "execute"]
  /\ UNCHANGED <<pstate, sigterm, to_verify_queue, table, histVars>>
  /\ ProcFrame

\* session.execute(prepared, (val, key)): the row is written, or the
\* statement raises and the except clause re-raises
DataWriterExecute(p) ==
  /\ IsAlive(p) /\ target[p] = "data_writer" /\ ppc[p] = "execute"
  /\ \E ok \in BOOLEAN :
       IF ok
       THEN /\ table' = [table EXCEPT ![plocal[p].key] = plocal[p].val]
            /\ ppc' = [ppc EXCEPT ![p] = "put"]
            /\ UNCHANGED <<pstate, sigterm>>
       ELSE /\ Ends(p, "raised")
            /\ UNCHANGED table
  /\ UNCHANGED <<plocal, to_verify_queue, verification_done_queue, nwrites, nkeys,
                 histVars>>
  /\ ProcFrame

\* to_verify_queue.put_nowait((key, val,))
DataWriterPut(p) ==
  LET pl == PipelineOf(p)
      entry == <<plocal[p].key, plocal[p].val>> IN
  /\ IsAlive(p) /\ target[p] = "data_writer" /\ ppc[p] = "put"
  /\ IF QueueFull(to_verify_queue[pl], ToVerifyMaxsize)
     THEN /\ Ends(p, "raised")
          /\ UNCHANGED <<to_verify_queue, pushed>>
     ELSE /\ to_verify_queue' = [to_verify_queue EXCEPT ![pl] = Append(@, entry)]
          /\ pushed' = pushed \cup {<<pl>> \o entry}
          /\ ppc' = [ppc EXCEPT ![p] = "choose"]
          /\ UNCHANGED <<pstate, sigterm>>
  /\ UNCHANGED <<plocal, verification_done_queue, table, nwrites, nkeys,
                 compared, failed, offered>>
  /\ ProcFrame

(***************************************************************************)
(* data_checker                                                            *)
(***************************************************************************)
\* (a get that leaves the entry on the queue)
GetNowaitPeeks(p, fn) ==
  LET pl == PipelineOf(p) IN
  /\ IsAlive(p) /\ target[p] = fn /\ ppc[p] = "get"
  /\ to_verify_queue[pl] # <<>>
  /\ plocal' = [plocal EXCEPT ![p] =
       [key |-> Head(to_verify_queue[pl])[1], val |-> Head(to_verify_queue[pl])[2],
        actual |-> 0]]
  /\ ppc' = [ppc EXCEPT ![p] = "execute"]
  /\ UNCHANGED <<pstate, sigterm, to_verify_queue, verification_done_queue, table,
                 nwrites, nkeys, histVars>>
  /\ ProcFrame

\* (key, expected_val) = to_verify_queue.get_nowait() finds an entry, in the
\* checker running function fn
GetNowait(p, fn) ==
  LET pl == PipelineOf(p) IN
  /\ IsAlive(p) /\ target[p] = fn /\ ppc[p] = "get"
  /\ to_verify_queue[pl] # <<>>
  /\ plocal' = [plocal EXCEPT ![p] =
       [key |-> Head(to_verify_queue[pl])[1], val |-> Head(to_verify_queue[pl])[2],
        actual |-> 0]]
  /\ to_verify_queue' = [to_verify_queue EXCEPT ![pl] = Tail(@)]
  /\ ppc' = [ppc EXCEPT ![p] = "execute"]
  /\ UNCHANGED <<pstate, sigterm, verification_done_queue, table, nwrites, nkeys,
                 histVars>>
  /\ ProcFrame

\* to_verify_queue.get_nowait() raises Empty: the except clause is entered
GetNowaitEmpty(p, fn) ==
  /\ IsAlive(p) /\ target[p] = fn /\ ppc[p] = "get"
  /\ to_verify_queue[PipelineOf(p)] = <<>>
  /\ ppc' = [ppc EXCEPT ![p] = "sleep"]
  /\ UNCHANGED <<pstate, sigterm, plocal, dataVars, histVars>>
  /\ ProcFrame

\* (a checker that stays blocked once it found the queue empty)
SleepBlocks(p, fn) ==
  /\ IsAlive(p) /\ target[p] = fn /\ ppc[p] = "sleep"
  /\ UNCHANGED <<procVars, dataVars, histVars>>
  /\ ProcFrame

\* except Empty: time.sleep(0.1); continue
Sleep(p, fn) ==
  /\ IsAlive(p) /\ target[p] = fn /\ ppc[p] = "sleep"
  /\ ppc' = [ppc EXCEPT ![p] = "get"]
  /\ UNCHANGED <<pstate, sigterm, plocal, dataVars, histVars>>
  /\ ProcFrame

\* the pass of the loop that finds an entry; a pass that finds the queue empty
\* (DataCheckerEmpty, DataCheckerSleep) changes nothing but the position of
\* the checker and is a stuttering step of the upgrade scenarios
DataCheckerGet(p) == GetNowait(p, "data_checker")

DataCheckerEmpty(p) == GetNowaitEmpty(p, "data_checker")

DataCheckerSleep(p) == Sleep(p, "data_checker")

\* actual_val = session.execute(prepared, (key,))[0][0]: the value read is the one
\* last written, or (the database under test being at fault) another one, or
\* the statement raises
DataCheckerExecute(p) ==
  /\ IsAlive(p) /\ target[p] = "data_checker" /\ ppc[p] = "execute"
  /\ \E outcome \in {"read", "wrong", "raise"} :
       CASE outcome = "read" ->
              /\ plocal' = [plocal EXCEPT ![p].actual = table[plocal[p].key]]
              /\ ppc' = [ppc EXCEPT ![p] = "put_done"]
              /\ UNCHANGED <<pstate, sigterm>>
         [] outcome = "wrong" ->
              /\ plocal' = [plocal EXCEPT ![p].actual = 0]
              /\ ppc' = [ppc EXCEPT ![p] = "put_done"]
              /\ UNCHANGED <<pstate, sigterm>>
         [] outcome = "raise" ->
              /\ Ends(p, "raised")
              /\ UNCHANGED plocal
  /\ UNCHANGED <<dataVars, histVars>>
  /\ ProcFrame

\* else: verification_done_queue.put_nowait(key), Full is dropped
DataCheckerPutDone(p) ==
  LET pl == PipelineOf(p) IN
  /\ IsAlive(p) /\ target[p] = "data_checker" /\ ppc[p] = "put_done"
  /\ IF QueueFull(verification_done_queue[pl], VerificationDoneMaxsize)
     THEN UNCHANGED <<verification_done_queue, offered>>
     ELSE /\ verification_done_queue' =
               [verification_done_queue EXCEPT ![pl] = Append(@, plocal[p].key)]
          /\ offered' = offered \cup {<<pl, plocal[p].key, plocal[p].val>>}
  /\ ppc' = [ppc EXCEPT ![p] = "assert"]
  /\ UNCHANGED <<pstate, sigterm, plocal, to_verify_queue, table, nwrites, nkeys,
                 pushed, compared, failed>>
  /\ ProcFrame

\* tester.assertEqual(expected_val, actual_val, ...)
DataCheckerAssert(p) ==
  LET pl == PipelineOf(p)
      entry == <<pl, plocal[p].key, plocal[p].val>> IN
  /\ IsAlive(p) /\ target[p] = "data_checker" /\ ppc[p] = "assert"
  /\ IF plocal[p].val = plocal[p].actual
     THEN /\ compared' = compared \cup {entry}
          /\ ppc' = [ppc EXCEPT ![p] = "get"]
          /\ UNCHANGED <<pstate, sigterm, failed>>
     ELSE /\ failed' = failed \cup {entry}
          /\ Ends(p, "raised")
          /\ UNCHANGED compared
  /\ UNCHANGED <<plocal, dataVars, pushed, offered>>
  /\ ProcFrame

(***************************************************************************)
(* counter_checker                                                         *)
(***************************************************************************)
CounterCheckerGet(p) == GetNowait(p, "counter_checker")

CounterCheckerEmpty(p) == GetNowaitEmpty(p, "counter_checker")

CounterCheckerSleep(p) == Sleep(p, "counter_checker")

\* actual_count = session.execute(prepared, (key,))[0][0]
CounterCheckerExecute(p) ==
  /\ IsAlive(p) /\ target[p] = "counter_checker" /\ ppc[p] = "execute"
  /\ \E outcome \in {"read", "wrong", "raise"} :
       CASE outcome = "read" ->
              /\ plocal' = [plocal EXCEPT ![p].actual = table[plocal[p].key]]
              /\ ppc' = [ppc EXCEPT ![p] = "assert"]
              /\ UNCHANGED <<pstate, sigterm>>
         [] outcome = "wrong" ->
              /\ plocal' = [plocal EXCEPT ![p].actual = 0]
              /\ ppc' = [ppc EXCEPT ![p] = "assert"]
              /\ UNCHANGED <<pstate, sigterm>>
         [] outcome = "raise" ->
              /\ Ends(p, "raised")
              /\ UNCHANGED plocal
  /\ UNCHANGED <<dataVars, histVars>>
  /\ ProcFrame

\* else: tester.assertEqual(expected_count, actual_count, ...)
CounterCheckerAssert(p) ==
  LET pl == PipelineOf(p)
      entry == <<pl, plocal[p].key, plocal[p].val>> IN
  /\ IsAlive(p) /\ target[p] = "counter_checker" /\ ppc[p] = "assert"
  /\ IF plocal[p].val = plocal[p].actual
     THEN /\ compared' = compared \cup {entry}
          /\ ppc' = [ppc EXCEPT ![p] = "put_done"]
          /\ UNCHANGED <<pstate, sigterm, failed>>
     ELSE /\ failed' = failed \cup {entry}
          /\ Ends(p, "raised")
          /\ UNCHANGED compared
  /\ UNCHANGED <<plocal, dataVars, pushed, offered>>
  /\ ProcFrame

\* verification_done_queue.put_nowait((key, actual_count)), Full is dropped
CounterCheckerPutDone(p) ==
  LET pl == PipelineOf(p) IN
  /\ IsAlive(p) /\ target[p] = "counter_checker" /\ ppc[p] = "put_done"
  /\ IF QueueFull(verification_done_queue[pl], VerificationDoneMaxsize)
     THEN UNCHANGED <<verification_done_queue, offered>>
     ELSE /\ verification_done_queue' =
               [verification_done_queue EXCEPT ![pl] = Append(@, plocal[p].key)]
          /\ offered' = offered \cup {<<pl, plocal[p].key, plocal[p].val>>}
  /\ ppc' = [ppc EXCEPT ![p] = "get"]
  /\ UNCHANGED <<pstate, sigterm, plocal, to_verify_queue, table, nwrites, nkeys,
                 pushed, compared, failed>>
  /\ ProcFrame

CounterCheckerStep(p) ==
  \/ CounterCheckerGet(p)
  \/ CounterCheckerEmpty(p)
  \/ CounterCheckerSleep(p)
  \/ CounterCheckerExecute(p)
  \/ CounterCheckerAssert(p)
  \/ CounterCheckerPutDone(p)

ProcStep(p) ==
  \/ ProcConnect(p)
  \/ HandleSigterm(p)
  \/ DataWriterChoose(p)
  \/ DataWriterExecute(p)
  \/ DataWriterPut(p)
  \/ DataCheckerGet(p)
  \/ DataCheckerExecute(p)
  \/ DataCheckerPutDone(p)
  \/ DataCheckerAssert(p)

(***************************************************************************)
(* Helpers of the main process.                                            *)
(***************************************************************************)
Range(seq) == {seq[i] : i \in 1..Len(seq)}

\* an exception leaves the test method: the test runner calls tearDown next
Raise(exc) ==
  /\ m_exc' = exc
  /\ m_pc' = "tearDown"

\* (a _terminate_subprocs that stops after the first registered subprocess)
TerminateFirstOnly(registered, st) ==
  [p \in Procs |-> IF registered # <<>> /\ p = registered[1] /\ st[p] = "alive"
                   THEN "killed" ELSE st[p]]

\* pstate after _terminate_subprocs: psutil.Process(s.pid).kill() for every
\* s in self.subprocs that is alive
TerminateSubprocs(registered, st) ==
  [p \in Procs |-> IF p \in Range(registered) /\ st[p] = "alive" THEN "killed" ELSE st[p]]

\* the main process calls self._terminate_subprocs()
DoTerminateSubprocs ==
  /\ pstate' = TerminateSubprocs(subprocs, pstate)
  /\ ppc' = [p \in Procs |-> IF pstate'[p] = "alive" \/ pstate'[p] = "new"
                             THEN ppc[p] ELSE "ended"]
  /\ sigterm' = [p \in Procs |-> sigterm[p] /\ pstate'[p] = "alive"]

\* (any() in place of all())
AnyAlive(given) == \E i \in 1..Len(given) : IsAlive(given[i])

\* subproc_statuses = [s.is_alive() for s in subprocs]; all(subproc_statuses)
AllAlive(given) == \A i \in 1..Len(given) : IsAlive(given[i])

\* (a check that never looks at the statuses)
CheckOnSubprocsSkipped(given, next) ==
  /\ m_pc' = next
  /\ UNCHANGED <<m_exc, pstate, ppc, sigterm>>

\* _check_on_subprocs(given), continuing at position next when it returns
CheckOnSubprocs(given, next) ==
  IF AllAlive(given)
  THEN /\ m_pc' = next
       /\ UNCHANGED <<m_exc, pstate, ppc, sigterm>>
  ELSE /\ DoTerminateSubprocs
       /\ Raise("RuntimeError")

\* Process.terminate(): SIGTERM to a running process
Terminate(p) == sigterm' = [sigterm EXCEPT ![p] = IsAlive(p)]

\* the parent calls terminate() on subprocess p: SIGTERM is sent
ProcTerminate(p) ==
  /\ IsAlive(p) /\ ~sigterm[p]
  /\ Terminate(p)
  /\ UNCHANGED <<pstate, ppc, plocal, dataVars, histVars>>
  /\ ProcFrame

(***************************************************************************)
(* _wait_until_queue_condition                                             *)
(***************************************************************************)
\* the local variable qsize before its first assignment
Unbound == -1

\* (a condition that every queue size satisfies)
OpFuncAlways(op, a, b) == TRUE

\* operator.ge and operator.le
OpFunc(op, a, b) == IF op = "ge" THEN a >= b ELSE a <= b

\* the caller's side of self._wait_until_queue_condition(label, queue, opfunc,
\* required_len, max_wait_s), returning to position ret
CallWait(queue, opfunc, required_len, max_wait_s, ret) ==
  /\ wq_pc' = "enter"
  /\ wq_queue' = queue
  /\ wq_opfunc' = opfunc
  /\ wq_required_len' = required_len
  /\ wq_max_wait_s' = max_wait_s
  /\ wq_result' = "none"
  /\ wq_observed' = "none"
  /\ m_pc' = "in_wait"
  /\ m_ret' = ret
  /\ UNCHANGED <<wait_end_time, now, qsize, qsize_supported>>

WaitFrame == UNCHANGED <<envVars, extVars, restartVars, notifyVars, rolling, m_pl, m_tag, m_node, m_ret, procVars, dataVars,
                         histVars, nodeVars, upVars, wq_queue, wq_opfunc,
                         wq_required_len, wq_max_wait_s, qsize_supported>>

\* the function returns normally (break)
WaitReturns(observed) ==
  /\ wq_pc' = "idle"
  /\ wq_result' = "returned"
  /\ wq_observed' = observed
  /\ m_pc' = m_ret
  /\ UNCHANGED m_exc

\* wait_end_time = time.time() + max_wait_s  (the clock is read relative to
\* the moment of the call)
WaitEnter ==
  /\ m_pc = "in_wait" /\ wq_pc = "enter"
  /\ now' = 0
  /\ wait_end_time' = now' + wq_max_wait_s
  /\ qsize' = Unbound
  /\ wq_pc' = "loop_test"
  /\ UNCHANGED <<m_pc, m_exc, wq_result, wq_observed>>
  /\ WaitFrame

\* what the else clause of the while loop raises: the message formats qsize
TimeoutError(q) == IF q = Unbound THEN "UnboundLocalError" ELSE "RuntimeError"

\* while time.time() < wait_end_time: ... else: raise RuntimeError(...format(qsize, ...))
WaitLoopTest ==
  /\ m_pc = "in_wait" /\ wq_pc = "loop_test"
  /\ IF now < wait_end_time
     THEN /\ wq_pc' = "qsize"
          /\ UNCHANGED <<m_pc, m_exc, wq_result>>
     ELSE /\ wq_pc' = "idle"
          /\ wq_result' = TimeoutError(qsize)
          /\ Raise(TimeoutError(qsize))
  /\ UNCHANGED <<wait_end_time, now, qsize, wq_observed>>
  /\ WaitFrame

\* try: qsize = queue.qsize()  except NotImplementedError: break
WaitQsize ==
  /\ m_pc = "in_wait" /\ wq_pc = "qsize"
  /\ IF qsize_supported
     THEN /\ qsize' = Len(to_verify_queue[wq_queue])
          /\ wq_pc' = "opfunc"
          /\ UNCHANGED <<m_pc, m_exc, wq_result, wq_observed>>
     ELSE /\ WaitReturns("NotImplementedError")
          /\ UNCHANGED qsize
  /\ UNCHANGED <<wait_end_time, now>>
  /\ WaitFrame

\* if opfunc(qsize, required_len): break
WaitOpfunc ==
  /\ m_pc = "in_wait" /\ wq_pc = "opfunc"
  /\ IF OpFunc(wq_opfunc, qsize, wq_required_len)
     THEN WaitReturns("condition")
     ELSE /\ wq_pc' = "sleep"
          /\ UNCHANGED <<m_pc, m_exc, wq_result, wq_observed>>
  /\ UNCHANGED <<wait_end_time, now, qsize>>
  /\ WaitFrame

\* time.sleep(0.1); continue   (one unit of the clock is one sleep)
WaitSleep ==
  /\ m_pc = "in_wait" /\ wq_pc = "sleep"
  /\ now' = now + 1
  /\ wq_pc' = "loop_test"
  /\ UNCHANGED <<m_pc, m_exc, wq_result, wq_observed, wait_end_time, qsize>>
  /\ WaitFrame

WaitStep == WaitEnter \/ WaitLoopTest \/ WaitQsize \/ WaitOpfunc \/ WaitSleep

(***************************************************************************)
(* upgrade_to_version(tag, partial, nodes)                                 *)
(***************************************************************************)
\* self.cluster.nodelist()
NodeList == [i \in 1..NumNodes |-> i]

\* the caller's side of self.upgrade_to_version(tag, partial, nodes)
CallUpgrade(tag, partial, nodes, ret) ==
  /\ u_pc' = "enter"
  /\ u_tag' = tag
  /\ u_partial' = partial
  /\ u_arg' = nodes
  /\ m_pc' = "in_upgrade"
  /\ m_ret' = ret
  /\ UNCHANGED <<u_nodes, u_i>>

\* (partial is not looked at: every node is upgraded)
UpgradedNodesAll(partial, nodes) == NodeList

\* the nodes the call works on: if not partial: nodes = self.cluster.nodelist()
UpgradedNodes(partial, nodes) == IF ~partial THEN NodeList ELSE nodes

UpFrame == UNCHANGED <<envVars, extVars, restartVars, notifyVars, rolling, m_pl, m_tag, m_node, m_exc, m_ret, procVars,
                       dataVars, histVars, waitVars, u_tag, u_partial, u_arg>>

\* (a loop that ends after its first node)
LoopNextBreaks(again, after) ==
  /\ u_i' = 1
  /\ u_pc' = after
  /\ IF after = "idle" THEN m_pc' = m_ret ELSE UNCHANGED m_pc

\* the next position of a loop over u_nodes: the next node, or the step after
LoopNext(again, after) ==
  IF u_i < Len(u_nodes)
  THEN /\ u_i' = u_i + 1
       /\ u_pc' = again
       /\ UNCHANGED m_pc
  ELSE /\ u_i' = 1
       /\ u_pc' = after
       /\ IF after = "idle" THEN m_pc' = m_ret ELSE UNCHANGED m_pc

\* switch_jdks(tag); if not partial: nodes = self.cluster.nodelist()
UpgradeEnter ==
  /\ m_pc = "in_upgrade" /\ u_pc = "enter"
  /\ u_nodes' = UpgradedNodes(u_partial, u_arg)
  /\ u_i' = 1
  /\ u_pc' = IF Len(u_nodes') = 0 THEN "update_topology" ELSE "drain"
  /\ UNCHANGED <<m_pc, nodeVars>>
  /\ UpFrame

\* node.drain()
NodeDrain ==
  /\ m_pc = "in_upgrade" /\ u_pc = "drain"
  /\ drained' = [drained EXCEPT ![u_nodes[u_i]] = TRUE]
  /\ u_pc' = "watch_log"
  /\ UNCHANGED <<m_pc, u_nodes, u_i, running, install_dir, node_ver, seen_drained,
                 sstables_ver, topology_writes>>
  /\ UpFrame

\* node.watch_log_for("DRAINED")
NodeWatchLog ==
  /\ m_pc = "in_upgrade" /\ u_pc = "watch_log"
  /\ drained[u_nodes[u_i]]
  /\ seen_drained' = [seen_drained EXCEPT ![u_nodes[u_i]] = TRUE]
  /\ u_pc' = "stop"
  /\ UNCHANGED <<m_pc, u_nodes, u_i, running, install_dir, node_ver, drained,
                 sstables_ver, topology_writes>>
  /\ UpFrame

\* (a stop that leaves the node running)
NodeStopNot ==
  /\ m_pc = "in_upgrade" /\ u_pc = "stop"
  /\ LoopNext("drain", "set_install_dir")
  /\ UNCHANGED <<u_nodes, running, node_ver, install_dir, drained, seen_drained,
                 sstables_ver, topology_writes>>
  /\ UpFrame

\* node.stop(wait_other_notice=False)
NodeStop ==
  /\ m_pc = "in_upgrade" /\ u_pc = "stop"
  /\ running' = [running EXCEPT ![u_nodes[u_i]] = FALSE]
  /\ node_ver' = [node_ver EXCEPT ![u_nodes[u_i]] = 0]
  /\ LoopNext("drain", "set_install_dir")
  /\ UNCHANGED <<u_nodes, install_dir, drained, seen_drained, sstables_ver,
                 topology_writes>>
  /\ UpFrame

\* node.set_install_dir(...) in either branch of LOCAL_MODE
NodeSetInstallDir ==
  /\ m_pc = "in_upgrade" /\ u_pc = "set_install_dir"
  /\ install_dir' = [install_dir EXCEPT ![u_nodes[u_i]] = u_tag]
  /\ LoopNext("set_install_dir", "update_topology")
  /\ UNCHANGED <<u_nodes, running, node_ver, drained, seen_drained, sstables_ver,
                 topology_writes>>
  /\ UpFrame

\* self.cluster._Cluster__update_topology_files()
UpdateTopology ==
  /\ m_pc = "in_upgrade" /\ u_pc = "update_topology"
  /\ topology_writes' = topology_writes + 1
  /\ IF Len(u_nodes) = 0
     THEN /\ u_pc' = "idle"
          /\ m_pc' = m_ret
     ELSE /\ u_pc' = "start"
          /\ UNCHANGED m_pc
  /\ UNCHANGED <<u_nodes, u_i, running, install_dir, node_ver, drained,
                 seen_drained, sstables_ver>>
  /\ UpFrame

\* node.set_log_level("INFO"); node.start(wait_other_notice=True,
\* wait_for_binary_proto=True): the node runs the version of its install dir
NodeStart ==
  /\ m_pc = "in_upgrade" /\ u_pc = "start"
  /\ running' = [running EXCEPT ![u_nodes[u_i]] = TRUE]
  /\ node_ver' = [node_ver EXCEPT ![u_nodes[u_i]] = install_dir[u_nodes[u_i]]]
  /\ drained' = [drained EXCEPT ![u_nodes[u_i]] = FALSE]
  /\ seen_drained' = [seen_drained EXCEPT ![u_nodes[u_i]] = FALSE]
  /\ u_pc' = "upgradesstables"
  /\ UNCHANGED <<m_pc, u_nodes, u_i, install_dir, sstables_ver, topology_writes>>
  /\ UpFrame

\* node.nodetool('upgradesstables -a')
NodeUpgradeSSTables ==
  /\ m_pc = "in_upgrade" /\ u_pc = "upgradesstables"
  /\ sstables_ver' = [sstables_ver EXCEPT ![u_nodes[u_i]] = node_ver[u_nodes[u_i]]]
  /\ LoopNext("start", "idle")
  /\ UNCHANGED <<u_nodes, running, install_dir, node_ver, drained, seen_drained,
                 topology_writes>>
  /\ UpFrame

UpgradeStep ==
  \/ UpgradeEnter
  \/ NodeDrain
  \/ NodeWatchLog
  \/ NodeStop
  \/ NodeSetInstallDir
  \/ UpdateTopology
  \/ NodeStart
  \/ NodeUpgradeSSTables

(***************************************************************************)
(* upgrade_scenario, run by rolling_upgrade_test (rolling = TRUE) or by     *)
(* parallel_upgrade_test (rolling = FALSE), and tearDown.                  *)
(***************************************************************************)
MainFrame == UNCHANGED <<envVars, extVars, restartVars, notifyVars, rolling, dataVars, histVars, target, plocal>>

\* cluster.populate(3); node.start(...) for every node; create the schema
Setup ==
  /\ m_pc = "setup"
  /\ running' = [n \in Nodes |-> TRUE]
  /\ node_ver' = [n \in Nodes |-> install_dir[n]]
  /\ sstables_ver' = [n \in Nodes |-> install_dir[n]]
  /\ IF rolling
     THEN /\ m_pc' = "append_writer"
          /\ m_pl' = "write"
          /\ UNCHANGED m_tag
     ELSE /\ m_pc' = IF test_versions > 1 THEN "write_values" ELSE "cluster_stop"
          /\ m_tag' = 2
          /\ UNCHANGED m_pl
  /\ UNCHANGED <<m_node, m_exc, m_ret, subprocs, pstate, sigterm, ppc, waitVars,
                 install_dir, drained, seen_drained, topology_writes, upVars>>
  /\ MainFrame

\* self.subprocs.append(writer)   /   self.subprocs.append(incrementer)
AppendWriter ==
  /\ m_pc = "append_writer"
  /\ subprocs' = Append(subprocs, WriterOf(m_pl))
  /\ m_pc' = "start_writer"
  /\ UNCHANGED <<m_pl, m_tag, m_node, m_exc, m_ret, pstate, sigterm, ppc,
                 waitVars, nodeVars, upVars>>
  /\ MainFrame

\* process.start(): the child runs its target from the beginning
StartProcess(p, next) ==
  /\ pstate' = [pstate EXCEPT ![p] = "alive"]
  /\ target' = [target EXCEPT ![p] = ProcessTarget(p)]
  /\ ppc' = [ppc EXCEPT ![p] = "connect"]
  /\ m_pc' = next

\* writer.start()   /   incrementer.start()
StartWriter ==
  /\ m_pc = "start_writer"
  /\ StartProcess(WriterOf(m_pl),
                  IF WaitForRowcount > 0 THEN "wait_rowcount" ELSE "append_verifier")
  /\ UNCHANGED <<envVars, extVars, restartVars, notifyVars, rolling, m_pl, m_tag, m_node, m_exc, m_ret, subprocs,
                 sigterm, plocal, dataVars, histVars, waitVars, nodeVars, upVars>>

\* if wait_for_rowcount > 0: self._wait_until_queue_condition(..., to_verify_queue,
\* operator.ge, wait_for_rowcount, max_wait_s=max_wait_s)
WaitRowcount ==
  /\ m_pc = "wait_rowcount"
  /\ CallWait(m_pl, "ge", WaitForRowcount, ScenarioMaxWaitS, "append_verifier")
  /\ UNCHANGED <<m_pl, m_tag, m_node, m_exc, subprocs, pstate, sigterm, ppc,
                 nodeVars, upVars>>
  /\ MainFrame

\* self.subprocs.append(verifier)   /   self.subprocs.append(count_verifier)
AppendVerifier ==
  /\ m_pc = "append_verifier"
  /\ subprocs' = Append(subprocs, VerifierOf(m_pl))
  /\ m_pc' = "start_verifier"
  /\ UNCHANGED <<m_pl, m_tag, m_node, m_exc, m_ret, pstate, sigterm, ppc,
                 waitVars, nodeVars, upVars>>
  /\ MainFrame

\* verifier.start(), then the next _start_continuous_* method or the upgrade loop
StartVerifier ==
  /\ m_pc = "start_verifier"
  /\ StartProcess(VerifierOf(m_pl),
                  IF m_pl = "write" THEN "append_writer"
                  ELSE IF test_versions > 1 THEN "upgrade_node" ELSE "terminate_write_proc")
  /\ m_pl' = IF m_pl = "write" THEN "counter" ELSE "none"
  /\ m_tag' = 2
  /\ m_node' = 1
  /\ UNCHANGED <<envVars, extVars, restartVars, notifyVars, rolling, m_exc, m_ret, subprocs, sigterm, plocal,
                 dataVars, histVars, waitVars, nodeVars, upVars>>

\* (an upgrade of the whole cluster at every pass of the loop)
UpgradeNodeAll ==
  /\ m_pc = "upgrade_node"
  /\ CallUpgrade(m_tag, FALSE, <<m_node>>, "check_on_subprocs")
  /\ UNCHANGED <<m_pl, m_tag, m_node, m_exc, subprocs, pstate, sigterm, ppc,
                 waitVars, nodeVars>>
  /\ MainFrame

\* time.sleep(60); self.upgrade_to_version(tag, partial=True, nodes=(node,))
UpgradeNode ==
  /\ m_pc = "upgrade_node"
  /\ CallUpgrade(m_tag, TRUE, <<m_node>>, "check_on_subprocs")
  /\ UNCHANGED <<m_pl, m_tag, m_node, m_exc, subprocs, pstate, sigterm, ppc,
                 waitVars, nodeVars>>
  /\ MainFrame

\* self._check_on_subprocs(self.subprocs), then the next node of the loop
CheckAfterNode ==
  /\ m_pc = "check_on_subprocs"
  /\ CheckOnSubprocs(subprocs,
                     IF m_node < NumNodes THEN "upgrade_node" ELSE "cluster_set_install_dir")
  /\ m_node' = IF AllAlive(subprocs) /\ m_node < NumNodes THEN m_node + 1 ELSE m_node
  /\ UNCHANGED <<m_pl, m_tag, m_ret, subprocs, waitVars, nodeVars, upVars>>
  /\ MainFrame

\* self.cluster.set_install_dir(version='git:' + tag), then the next tag of the
\* loop; after the last tag the rolling scenario stops its writers and the
\* parallel one runs its checks
ClusterSetInstallDir ==
  /\ m_pc = "cluster_set_install_dir"
  /\ install_dir' = [n \in Nodes |-> m_tag]
  /\ IF ~rolling
     THEN /\ m_pc' = "check_values"
          /\ UNCHANGED <<m_tag, m_node>>
     ELSE IF m_tag < test_versions
     THEN /\ m_pc' = "upgrade_node"
          /\ m_tag' = m_tag + 1
          /\ m_node' = 1
     ELSE /\ m_pc' = "terminate_write_proc"
          /\ UNCHANGED <<m_tag, m_node>>
  /\ UNCHANGED <<m_pl, m_exc, m_ret, subprocs, pstate, sigterm, ppc, waitVars,
                 running, node_ver, drained, seen_drained, sstables_ver,
                 topology_writes, upVars>>
  /\ MainFrame

\* write_proc.terminate()
TerminateWriteProc ==
  /\ m_pc = "terminate_write_proc"
  /\ Terminate("writer")
  /\ m_pc' = "terminate_increment_proc"
  /\ UNCHANGED <<m_pl, m_tag, m_node, m_exc, m_ret, subprocs, pstate, ppc,
                 waitVars, nodeVars, upVars>>
  /\ MainFrame

\* increment_proc.terminate()
TerminateIncrementProc ==
  /\ m_pc = "terminate_increment_proc"
  /\ Terminate("incrementer")
  /\ m_pc' = "wait_verification"
  /\ UNCHANGED <<m_pl, m_tag, m_node, m_exc, m_ret, subprocs, pstate, ppc,
                 waitVars, nodeVars, upVars>>
  /\ MainFrame

\* self._wait_until_queue_condition('writes pending verification',
\* verification_queue, operator.le, 0, max_wait_s=600)
WaitVerification ==
  /\ m_pc = "wait_verification"
  /\ CallWait("write", "le", 0, ScenarioMaxWaitS, "wait_incr_verification")
  /\ UNCHANGED <<m_pl, m_tag, m_node, m_exc, subprocs, pstate, sigterm, ppc,
                 nodeVars, upVars>>
  /\ MainFrame

\* self._wait_until_queue_condition('counters pending verification',
\* incr_verify_queue, operator.le, 0, max_wait_s=600)
WaitIncrVerification ==
  /\ m_pc = "wait_incr_verification"
  /\ CallWait("counter", "le", 0, ScenarioMaxWaitS, "check_verifiers")
  /\ UNCHANGED <<m_pl, m_tag, m_node, m_exc, subprocs, pstate, sigterm, ppc,
                 nodeVars, upVars>>
  /\ MainFrame

\* self._check_on_subprocs([verify_proc, incr_verify_proc])
CheckVerifiers ==
  /\ m_pc = "check_verifiers"
  /\ CheckOnSubprocs(<<"verifier", "count_verifier">>, "terminate_subprocs")
  /\ UNCHANGED <<m_pl, m_tag, m_node, m_ret, subprocs, waitVars, nodeVars, upVars>>
  /\ MainFrame

\* self._terminate_subprocs() at the end of the rolling branch
TerminateAtEnd ==
  /\ m_pc = "terminate_subprocs"
  /\ DoTerminateSubprocs
  /\ m_pc' = "cluster_stop"
  /\ UNCHANGED <<m_pl, m_tag, m_node, m_exc, m_ret, subprocs, waitVars, nodeVars,
                 upVars>>
  /\ MainFrame

\* cluster.stop(): the test method returns
ClusterStop ==
  /\ m_pc = "cluster_stop"
  /\ running' = [n \in Nodes |-> FALSE]
  /\ node_ver' = [n \in Nodes |-> 0]
  /\ m_pc' = "tearDown"
  /\ UNCHANGED <<m_pl, m_tag, m_node, m_exc, m_ret, subprocs, pstate, sigterm, ppc,
                 waitVars, install_dir, drained, seen_drained, sstables_ver,
                 topology_writes, upVars>>
  /\ MainFrame

\* tearDown: self._terminate_subprocs(); Tester.tearDown stops the cluster
TearDown ==
  /\ m_pc = "tearDown"
  /\ DoTerminateSubprocs
  /\ running' = [n \in Nodes |-> FALSE]
  /\ node_ver' = [n \in Nodes |-> 0]
  /\ m_pc' = "torn_down"
  /\ wq_pc' = "idle"
  /\ u_pc' = "idle"
  /\ UNCHANGED <<m_pl, m_tag, m_node, m_exc, m_ret, subprocs, wq_queue, wq_opfunc,
                 wq_required_len, wq_max_wait_s, wait_end_time, now, qsize,
                 qsize_supported, wq_result, wq_observed, install_dir, drained,
                 seen_drained, sstables_ver, topology_writes, u_tag, u_partial,
                 u_arg, u_nodes, u_i>>
  /\ MainFrame

\* the parallel scenario before an upgrade step: self._write_values();
\* self._increment_counters(); the schema metadata checks
WriteValues ==
  /\ m_pc = "write_values"
  /\ m_pc' = "upgrade_all"
  /\ UNCHANGED <<m_pl, m_tag, m_node, m_exc, m_ret, subprocs, pstate, sigterm, ppc,
                 waitVars, nodeVars, upVars>>
  /\ MainFrame

\* self.upgrade_to_version(tag)
UpgradeAll ==
  /\ m_pc = "upgrade_all"
  /\ CallUpgrade(m_tag, FALSE, <<>>, "cluster_set_install_dir")
  /\ UNCHANGED <<m_pl, m_tag, m_node, m_exc, subprocs, pstate, sigterm, ppc,
                 waitVars, nodeVars>>
  /\ MainFrame

\* the parallel scenario after an upgrade step: self._check_values();
\* self._check_counters(); self._check_select_count(); then the next tag
CheckValues ==
  /\ m_pc = "check_values"
  /\ IF m_tag < test_versions
     THEN /\ m_pc' = "write_values"
          /\ m_tag' = m_tag + 1
     ELSE /\ m_pc' = "cluster_stop"
          /\ UNCHANGED m_tag
  /\ UNCHANGED <<m_pl, m_node, m_exc, m_ret, subprocs, pstate, sigterm, ppc,
                 waitVars, nodeVars, upVars>>
  /\ MainFrame

\* the steps of the main process that call into the cluster, the driver or the
\* operating system, and may raise
Fallible ==
  \/ m_pc \in {"setup", "start_writer", "start_verifier", "write_values",
               "check_values", "cluster_stop"}
  \/ m_pc = "in_upgrade" /\ u_pc \in {"drain", "watch_log", "stop", "set_install_dir",
                                      "start", "upgradesstables"}

\* such a step raises: the test method ends with an exception
MainFails ==
  /\ Fallible
  /\ Raise("Exception")
  /\ UNCHANGED <<m_pl, m_tag, m_node, m_ret, procVars, waitVars, nodeVars, upVars>>
  /\ UNCHANGED <<envVars, extVars, restartVars, notifyVars, rolling, dataVars, histVars>>

MainStep ==
  \/ Setup
  \/ AppendWriter
  \/ StartWriter
  \/ WaitRowcount
  \/ AppendVerifier
  \/ StartVerifier
  \/ UpgradeNode
  \/ CheckAfterNode
  \/ ClusterSetInstallDir
  \/ TerminateWriteProc
  \/ TerminateIncrementProc
  \/ WaitVerification
  \/ WaitIncrVerification
  \/ CheckVerifiers
  \/ TerminateAtEnd
  \/ WriteValues
  \/ UpgradeAll
  \/ CheckValues
  \/ ClusterStop
  \/ TearDown
  \/ MainFails

(***************************************************************************)
(* The upgrade tests: the state after the test object is constructed and   *)
(* set up, with the test (rolling or parallel) and the platform (whether   *)
(* Queue.qsize is implemented) chosen.                                     *)
(***************************************************************************)
InitProcs ==
  /\ subprocs = <<>>
  /\ pstate = [p \in Procs |-> "new"]
  /\ target = [p \in Procs |-> "none"]
  /\ sigterm = [p \in Procs |-> FALSE]
  /\ ppc = [p \in Procs |-> "new"]
  /\ plocal = [p \in Procs |-> NoLocals]

InitData ==
  /\ to_verify_queue = [pl \in Pipelines |-> <<>>]
  /\ verification_done_queue = [pl \in Pipelines |-> <<>>]
  /\ table = [k \in 1..max_writes |-> 0]
  /\ nwrites = 0
  /\ nkeys = 0
  /\ pushed = {}
  /\ compared = {}
  /\ failed = {}
  /\ offered = {}

InitWait ==
  /\ wq_pc = "idle"
  /\ wq_queue = "write"
  /\ wq_opfunc = "ge"
  /\ wq_required_len = 0
  /\ wq_max_wait_s = 0
  /\ wait_end_time = 0
  /\ now = 0
  /\ qsize = Unbound
  /\ wq_result = "none"
  /\ wq_observed = "none"

InitNodes ==
  /\ running = [n \in Nodes |-> FALSE]
  /\ install_dir = [n \in Nodes |-> 1]
  /\ node_ver = [n \in Nodes |-> 0]
  /\ drained = [n \in Nodes |-> FALSE]
  /\ seen_drained = [n \in Nodes |-> FALSE]
  /\ sstables_ver = [n \in Nodes |-> 0]
  /\ topology_writes = 0

\* NotificationWaiter.__init__
InitWaiter ==
  /\ notifications = <<>>
  /\ event = FALSE
  /\ h_pc = "idle"
  /\ h_notification = <<>>
  /\ pushed_count = 0
  /\ t_pc = "idle"
  /\ timeout = 0
  /\ num_notifications = 1
  /\ deadline = 0
  /\ clock = 0
  /\ returned = <<>>

InitUpgrade ==
  /\ u_pc = "idle"
  /\ u_tag = 1
  /\ u_partial = FALSE
  /\ u_arg = <<>>
  /\ u_nodes = <<>>
  /\ u_i = 1

\* the state when the test method is entered
\* no JolokiaAgent in use
InitJolokiaIdle ==
  /\ j_pc = "none"
  /\ j_starts = 0
  /\ j_stops = 0
  /\ j_start_result = "none"
  /\ j_stop_result = "none"
  /\ j_body = <<>>
  /\ j_exc = "none"
  /\ j_caller = "none"

\* no _segment_size_test running
InitSegmentsIdle ==
  /\ segment_size_in_mb = 0
  /\ compressed = FALSE
  /\ commitlogs = <<>>
  /\ seg_i = 0
  /\ smaller_found = FALSE
  /\ seg_result = "none"

\* no commit failure policy test running
InitPolicyIdle ==
  /\ policy = "stop"
  /\ is_win = FALSE
  /\ cl_pc = "none"
  /\ cl_running = FALSE
  /\ cl_perms = "rwx"
  /\ cl_log = {}
  /\ cl_write = "none"
  /\ cl_read = "none"
  /\ cl_result = "none"

\* no call of latest_tag_matching
InitTagsIdle ==
  /\ ver_tuple = <<0, 0>>
  /\ tags = {}
  /\ lt_todo = {}
  /\ wrappers = <<>>
  /\ lt_pc = "none"
  /\ latest = <<>>

InitCrcIdle ==
  /\ cf_test = "none"
  /\ cf_orig = <<>>
  /\ cf_disk = <<>>
  /\ cf_i = 1
  /\ cf_pc = "none"
  /\ crc_pos = 0
  /\ header_bytes = <<>>

InitPermsIdle ==
  /\ cp_mod = {}
  /\ is_root = FALSE
  /\ cp_dir = {}
  /\ cp_files = <<>>
  /\ cp_commitlogs = <<>>
  /\ cp_i = 1
  /\ cp_pc = "none"

InitParallelIdle ==
  /\ pd_pc = "none"
  /\ pd_tag = 1
  /\ row_values = {}
  /\ wv_i = 0
  /\ cf_writes = <<>>
  /\ expected_counts = <<>>
  /\ completed = <<>>
  /\ fail_count = 0
  /\ ic_i = 0
  /\ rows_read = {}
  /\ counters_compared = {}

InitExt == InitJolokiaIdle /\ InitSegmentsIdle /\ InitPolicyIdle /\ InitTagsIdle /\ InitCrcIdle /\ InitPermsIdle /\ InitParallelIdle

InitTest ==
  /\ keyspace = "none"
  /\ InitWaiter
  /\ cycle = 0
  /\ m_pc = "setup"
  /\ m_pl = "none"
  /\ m_tag = 1
  /\ m_node = 1
  /\ m_exc = "none"
  /\ m_ret = "none"
  /\ InitProcs
  /\ InitExt
  /\ InitData
  /\ InitWait
  /\ InitNodes
  /\ InitUpgrade

\* rolling_upgrade_test or parallel_upgrade_test on an upgrade path of
\* NumVersions versions
Init ==
  /\ rolling \in BOOLEAN
  /\ qsize_supported \in BOOLEAN
  /\ test_versions = NumVersions
  /\ max_writes = ScenarioWrites
  /\ InitTest

Next ==
  \/ MainStep
  \/ WaitStep
  \/ UpgradeStep
  \/ \E p \in Procs : ProcStep(p)

Spec == Init /\ [][Next]_vars

\* rolling_upgrade_test on an upgrade path of one version: the subprocesses
\* are started, stopped and checked, and no node is upgraded
InitPipelines ==
  /\ rolling = TRUE
  /\ qsize_supported \in BOOLEAN
  /\ test_versions = 1
  /\ max_writes = MaxWrites
  /\ InitTest

NextPipelines ==
  \/ Setup
  \/ AppendWriter
  \/ StartWriter
  \/ WaitRowcount
  \/ AppendVerifier
  \/ StartVerifier
  \/ TerminateWriteProc
  \/ TerminateIncrementProc
  \/ WaitVerification
  \/ WaitIncrVerification
  \/ CheckVerifiers
  \/ TerminateAtEnd
  \/ ClusterStop
  \/ TearDown
  \/ MainFails
  \/ WaitStep
  \/ \E p \in Procs : ProcStep(p)

SpecPipelines == InitPipelines /\ [][NextPipelines]_vars

\* rolling_upgrade_test on an upgrade path of NumRollingVersions versions
InitRolling ==
  /\ rolling = TRUE
  /\ qsize_supported \in BOOLEAN
  /\ test_versions = NumRollingVersions
  /\ max_writes = ScenarioWrites
  /\ InitTest

NextRolling ==
  \/ NextPipelines
  \/ UpgradeNode
  \/ CheckAfterNode
  \/ ClusterSetInstallDir
  \/ UpgradeStep

SpecRolling == InitRolling /\ [][NextRolling]_vars

(***************************************************************************)
(* A lone call of _wait_until_queue_condition: any opfunc of the operator  *)
(* module used by the tests, any required_len and max_wait_s, while other  *)
(* processes put entries on the queue and take entries from it.            *)
(***************************************************************************)
\* another process puts an entry on the queue the call watches
QueuePutNowait ==
  /\ m_pc = "in_wait"
  /\ Len(to_verify_queue[wq_queue]) <= MaxWaitArg
  /\ to_verify_queue' = [to_verify_queue EXCEPT ![wq_queue] = Append(@, <<0, 0>>)]
  /\ UNCHANGED <<envVars, extVars, restartVars, notifyVars, mainVars, procVars, verification_done_queue, table, nwrites,
                 nkeys, histVars, waitVars, nodeVars, upVars>>

\* another process takes an entry from the queue the call watches
QueueGetNowait ==
  /\ m_pc = "in_wait"
  /\ to_verify_queue[wq_queue] # <<>>
  /\ to_verify_queue' = [to_verify_queue EXCEPT ![wq_queue] = Tail(@)]
  /\ UNCHANGED <<envVars, extVars, restartVars, notifyVars, mainVars, procVars, verification_done_queue, table, nwrites,
                 nkeys, histVars, waitVars, nodeVars, upVars>>

InitWaitCall ==
  /\ keyspace = "none"
  /\ InitWaiter
  /\ cycle = 0
  /\ rolling = TRUE
  /\ test_versions = 1
  /\ max_writes = 0
  /\ m_pc = "in_wait"
  /\ m_pl = "none"
  /\ m_tag = 1
  /\ m_node = 1
  /\ m_exc = "none"
  /\ m_ret = "wait_returned"
  /\ InitProcs
  /\ InitExt
  /\ InitData
  /\ InitNodes
  /\ InitUpgrade
  /\ qsize_supported \in BOOLEAN
  /\ wq_pc = "enter"
  /\ wq_queue = "write"
  /\ wq_opfunc \in {"ge", "le"}
  /\ wq_required_len \in 0..MaxWaitArg
  /\ wq_max_wait_s \in 0..MaxWaitArg
  /\ wait_end_time = 0
  /\ now = 0
  /\ qsize = Unbound
  /\ wq_result = "none"
  /\ wq_observed = "none"

NextWaitCall ==
  \/ WaitStep
  \/ QueuePutNowait
  \/ QueueGetNowait

SpecWait == InitWaitCall /\ [][NextWaitCall]_vars

(***************************************************************************)
(* A lone call of upgrade_to_version(tag, partial, nodes) on a running      *)
(* cluster: either value of partial, any tuple of distinct nodes.          *)
(***************************************************************************)
\* the tuples of distinct nodes
NodeTuples ==
  {t \in UNION {[1..k -> Nodes] : k \in 0..NumNodes} :
     \A i, j \in 1..Len(t) : i # j => t[i] # t[j]}

InitUpgradeCall ==
  /\ keyspace = "none"
  /\ InitWaiter
  /\ cycle = 0
  /\ rolling = FALSE
  /\ test_versions = NumVersions
  /\ max_writes = 0
  /\ m_pc = "in_upgrade"
  /\ m_pl = "none"
  /\ m_tag = 2
  /\ m_node = 1
  /\ m_exc = "none"
  /\ m_ret = "upgraded"
  /\ InitProcs
  /\ InitExt
  /\ InitData
  /\ InitWait
  /\ qsize_supported = TRUE
  /\ running = [n \in Nodes |-> TRUE]
  /\ install_dir = [n \in Nodes |-> 1]
  /\ node_ver = [n \in Nodes |-> 1]
  /\ drained = [n \in Nodes |-> FALSE]
  /\ seen_drained = [n \in Nodes |-> FALSE]
  /\ sstables_ver = [n \in Nodes |-> 1]
  /\ topology_writes = 0
  /\ u_pc = "enter"
  /\ u_tag = 2
  /\ u_partial \in BOOLEAN
  /\ u_arg \in NodeTuples
  /\ u_nodes = <<>>
  /\ u_i = 1

NextUpgradeCall ==
  \/ UpgradeStep
  \/ MainFails

SpecUpgrade == InitUpgradeCall /\ [][NextUpgradeCall]_vars

(***************************************************************************)
(* NotificationWaiter: the driver thread calls handle_notification for     *)
(* every notification the node pushes; the test thread calls               *)
(* wait_for_notifications and clear_notifications.                         *)
(***************************************************************************)
\* what the pushed notifications look like: a schema change names a
\* keyspace, a status or topology change has no 'keyspace' entry
NotificationKinds ==
  { [type |-> "SCHEMA_CHANGE", keyspace |-> "ks"],
    [type |-> "SCHEMA_CHANGE", keyspace |-> "other"],
    [type |-> "STATUS_CHANGE", keyspace |-> "absent"],
    [type |-> "TOPOLOGY_CHANGE", keyspace |-> "absent"] }

NotifyFrame == UNCHANGED <<envVars, extVars, restartVars, mainVars, procVars, dataVars, histVars, waitVars,
                           nodeVars, upVars, keyspace>>

\* what the if statement of handle_notification does with a notification:
\* "KeyError" (notification['keyspace'] of a notification without that entry),
\* "return" (another keyspace) or "append"
FilterOutcome(ks, notification) ==
  IF ks = "none" THEN "append"
  ELSE IF notification.keyspace = "absent" THEN "KeyError"
  ELSE IF ks # notification.keyspace THEN "return"
  ELSE "append"

\* handle_notification(notification) up to the if statement
HandleNotification(notification) ==
  /\ h_pc = "idle"
  /\ pushed_count' = pushed_count + 1
  /\ IF FilterOutcome(keyspace, notification) = "append"
     THEN /\ h_notification' = notification
          /\ h_pc' = "append"
     ELSE UNCHANGED <<h_notification, h_pc>>
  /\ UNCHANGED <<notifications, event, t_pc, timeout, num_notifications, deadline,
                 clock, returned>>
  /\ NotifyFrame

\* the driver calls handle_notification with a notification the node pushed
HandleNotificationFilter ==
  /\ pushed_count < MaxNotifications
  /\ \E kind \in NotificationKinds :
       HandleNotification([id |-> pushed_count + 1, type |-> kind.type,
                           keyspace |-> kind.keyspace])
  /\ UNCHANGED <<notifications, event, t_pc, timeout, num_notifications, deadline,
                 clock, returned>>
  /\ NotifyFrame

\* self.notifications.append(notification)
HandleNotificationAppend ==
  /\ h_pc = "append"
  /\ notifications' = Append(notifications, h_notification)
  /\ h_pc' = "set"
  /\ UNCHANGED <<event, h_notification, pushed_count, t_pc, timeout,
                 num_notifications, deadline, clock, returned>>
  /\ NotifyFrame

\* (a handler that returns without setting the event)
HandleNotificationSetNot ==
  /\ h_pc = "set"
  /\ h_pc' = "idle"
  /\ h_notification' = <<>>
  /\ UNCHANGED <<notifications, event, pushed_count, t_pc, timeout,
                 num_notifications, deadline, clock, returned>>
  /\ NotifyFrame

\* self.event.set()
HandleNotificationSet ==
  /\ h_pc = "set"
  /\ event' = TRUE
  /\ h_pc' = "idle"
  /\ h_notification' = <<>>
  /\ UNCHANGED <<notifications, pushed_count, t_pc, timeout, num_notifications,
                 deadline, clock, returned>>
  /\ NotifyFrame

\* wait_for_notifications(timeout, num_notifications):
\* deadline = time.time() + timeout  (the clock is read relative to the call)
WaitForNotifications(at, t, n) ==
  /\ t_pc = at
  /\ timeout' = t
  /\ num_notifications' = n
  /\ clock' = 0
  /\ deadline' = clock' + t
  /\ t_pc' = "loop_test"
  /\ UNCHANGED <<notifications, event, h_pc, h_notification, pushed_count, returned>>
  /\ NotifyFrame

\* the test thread calls wait_for_notifications
WaitForNotificationsCall ==
  \E t \in 0..MaxTimeout, n \in 1..MaxTimeout : WaitForNotifications("idle", t, n)

\* (a loop condition that ignores the deadline)
TimeLeftAlways(now_, deadline_) == TRUE

\* time.time() < deadline
TimeLeft(now_, deadline_) == now_ < deadline_

\* where the test thread goes on when a method of the waiter returns
ReturnTo(method) ==
  IF cycle = 0 THEN "idle"
  ELSE IF method = "wait_for_notifications" THEN "assert_len"
  ELSE "next_cycle"

\* while time.time() < deadline: ...   return self.notifications
WaitForNotificationsLoopTest ==
  /\ t_pc = "loop_test"
  /\ IF TimeLeft(clock, deadline)
     THEN /\ t_pc' = "event_wait"
          /\ UNCHANGED returned
     ELSE /\ t_pc' = ReturnTo("wait_for_notifications")
          /\ returned' = notifications
  /\ UNCHANGED <<notifications, event, h_pc, h_notification, pushed_count, timeout,
                 num_notifications, deadline, clock>>
  /\ NotifyFrame

\* self.event.wait(deadline - time.time()) returns: the event is set, or the
\* timeout has passed
EventWait ==
  /\ t_pc = "event_wait"
  /\ event \/ clock >= deadline
  /\ t_pc' = "event_clear"
  /\ UNCHANGED <<notifications, event, h_pc, h_notification, pushed_count, timeout,
                 num_notifications, deadline, clock, returned>>
  /\ NotifyFrame

\* self.event.clear()
EventClear ==
  /\ t_pc = "event_clear"
  /\ event' = FALSE
  /\ t_pc' = "len_check"
  /\ UNCHANGED <<notifications, h_pc, h_notification, pushed_count, timeout,
                 num_notifications, deadline, clock, returned>>
  /\ NotifyFrame

\* if len(self.notifications) >= num_notifications: break
LenCheck ==
  /\ t_pc = "len_check"
  /\ IF Len(notifications) >= num_notifications
     THEN /\ t_pc' = ReturnTo("wait_for_notifications")
          /\ returned' = notifications
     ELSE /\ t_pc' = "loop_test"
          /\ UNCHANGED returned
  /\ UNCHANGED <<notifications, event, h_pc, h_notification, pushed_count, timeout,
                 num_notifications, deadline, clock>>
  /\ NotifyFrame

\* time passes during a call of wait_for_notifications
Tick ==
  /\ t_pc \in {"loop_test", "event_wait", "event_clear", "len_check"}
  /\ clock < deadline
  /\ clock' = clock + 1
  /\ UNCHANGED <<notifications, event, h_pc, h_notification, pushed_count, t_pc,
                 timeout, num_notifications, deadline, returned>>
  /\ NotifyFrame

\* clear_notifications: self.notifications = []
ClearNotificationsAt(at) ==
  /\ t_pc = at
  /\ notifications' = <<>>
  /\ t_pc' = "clear_event"
  /\ UNCHANGED <<event, h_pc, h_notification, pushed_count, timeout,
                 num_notifications, deadline, clock, returned>>
  /\ NotifyFrame

\* the test thread calls clear_notifications
ClearNotifications == ClearNotificationsAt("idle")

\* clear_notifications: self.event.clear()
ClearEvent ==
  /\ t_pc = "clear_event"
  /\ event' = FALSE
  /\ t_pc' = ReturnTo("clear_notifications")
  /\ UNCHANGED <<notifications, h_pc, h_notification, pushed_count, timeout,
                 num_notifications, deadline, clock, returned>>
  /\ NotifyFrame

\* a waiter with or without a keyspace filter, just constructed
InitNotify ==
  /\ keyspace \in {"none", "ks"}
  /\ InitWaiter
  /\ cycle = 0
  /\ rolling = FALSE
  /\ qsize_supported = TRUE
  /\ test_versions = 1
  /\ max_writes = 0
  /\ m_pc = "notifications"
  /\ m_pl = "none"
  /\ m_tag = 1
  /\ m_node = 1
  /\ m_exc = "none"
  /\ m_ret = "none"
  /\ InitProcs
  /\ InitExt
  /\ InitData
  /\ InitWait
  /\ InitNodes
  /\ InitUpgrade

NextNotify ==
  \/ HandleNotificationFilter
  \/ HandleNotificationAppend
  \/ HandleNotificationSet
  \/ WaitForNotificationsCall
  \/ WaitForNotificationsLoopTest
  \/ EventWait
  \/ EventClear
  \/ LenCheck
  \/ Tick
  \/ ClearNotifications
  \/ ClearEvent

SpecNotify == InitNotify /\ [][NextNotify]_vars

\* the test thread keeps running and time.time() keeps growing
SpecNotifyFair ==
  /\ SpecNotify
  /\ WF_vars(WaitForNotificationsLoopTest)
  /\ WF_vars(EventWait)
  /\ WF_vars(EventClear)
  /\ WF_vars(LenCheck)
  /\ WF_vars(Tick)

\* one call of wait_for_notifications, from the moment it has computed its
\* deadline: the waiter holds fewer than num_notifications notifications of
\* earlier pushes, and the event is set or clear
InitOneCall ==
  /\ keyspace \in {"none", "ks"}
  /\ num_notifications \in 1..MaxNotifications
  /\ pushed_count \in 0..(num_notifications - 1)
  /\ notifications = [i \in 1..pushed_count |->
                        [id |-> i, type |-> "SCHEMA_CHANGE", keyspace |-> "ks"]]
  /\ event \in BOOLEAN
  /\ h_pc = "idle"
  /\ h_notification = <<>>
  /\ t_pc = "loop_test"
  /\ timeout \in 1..MaxTimeout
  /\ deadline = timeout
  /\ clock = 0
  /\ returned = <<>>
  /\ cycle = 0
  /\ rolling = FALSE
  /\ qsize_supported = TRUE
  /\ test_versions = 1
  /\ max_writes = 0
  /\ m_pc = "notifications"
  /\ m_pl = "none"
  /\ m_tag = 1
  /\ m_node = 1
  /\ m_exc = "none"
  /\ m_ret = "none"
  /\ InitProcs
  /\ InitExt
  /\ InitData
  /\ InitWait
  /\ InitNodes
  /\ InitUpgrade

NextOneCall ==
  \/ HandleNotificationFilter
  \/ HandleNotificationAppend
  \/ HandleNotificationSet
  \/ WaitForNotificationsLoopTest
  \/ EventWait
  \/ EventClear
  \/ LenCheck
  \/ Tick

SpecOneCall == InitOneCall /\ [][NextOneCall]_vars

(***************************************************************************)
(* restart_node_test: node2 is stopped and started in a loop while a       *)
(* NotificationWaiter on node1 collects what node1 pushes.                 *)
(***************************************************************************)
\* the status and topology notifications node1 may push
RestartKinds ==
  { [type |-> "STATUS_CHANGE", change_type |-> "DOWN", address |-> "node2"],
    [type |-> "STATUS_CHANGE", change_type |-> "UP", address |-> "node2"],
    [type |-> "TOPOLOGY_CHANGE", change_type |-> "NEW_NODE", address |-> "node2"],
    [type |-> "STATUS_CHANGE", change_type |-> "UP", address |-> "node1"] }

RestartFrame ==
  UNCHANGED <<envVars, extVars, mainVars, procVars, dataVars, histVars, waitVars, nodeVars,
              upVars, keyspace, notifications, event, h_pc, h_notification,
              pushed_count, timeout, num_notifications, deadline, clock, returned>>

\* node1 pushes a notification while the test runs
NodePushes ==
  /\ t_pc \notin {"passed", "failed"}
  /\ pushed_count < MaxRestartPushed
  /\ \E kind \in RestartKinds : HandleNotification(kind)

\* node2.stop(wait_other_notice=True); node2.start(wait_other_notice=True)
RestartNode ==
  /\ t_pc = "restart"
  /\ t_pc' = "call_wait"
  /\ UNCHANGED cycle
  /\ RestartFrame

\* notifications = waiter.wait_for_notifications(timeout=60.0, num_notifications=3)
RestartWait == WaitForNotifications("call_wait", RestartTimeout, RestartNumNotifications)

\* self.assertEquals(3, len(notifications)): notifications is the list object
\* self.notifications itself
AssertLen ==
  /\ t_pc = "assert_len"
  /\ t_pc' = IF Len(notifications) = RestartNumNotifications
             THEN "assert_contents" ELSE "failed"
  /\ UNCHANGED cycle
  /\ RestartFrame

\* what the assertions on the addresses and the change types require
ExpectedContents(list) ==
  /\ \A i \in 1..Len(list) : list[i].address = "node2"
  /\ list[1].change_type = "DOWN"
  /\ list[2].change_type = "UP"
  /\ list[3].change_type = "NEW_NODE"

\* the assertions on the addresses and on notifications[0], [1] and [2]
AssertContents ==
  /\ t_pc = "assert_contents"
  /\ t_pc' = IF ExpectedContents(notifications) THEN "call_clear" ELSE "failed"
  /\ UNCHANGED cycle
  /\ RestartFrame

\* waiter.clear_notifications()
RestartClear == ClearNotificationsAt("call_clear")

\* for i in range(5): the next cycle, or the end of the test
NextCycle ==
  /\ t_pc = "next_cycle"
  /\ IF cycle < RestartCycles
     THEN /\ cycle' = cycle + 1
          /\ t_pc' = "restart"
     ELSE /\ t_pc' = "passed"
          /\ UNCHANGED cycle
  /\ RestartFrame

\* the waiter of restart_node_test just constructed (no keyspace), the test
\* entering its loop
InitRestart ==
  /\ keyspace = "none"
  /\ notifications = <<>>
  /\ event = FALSE
  /\ h_pc = "idle"
  /\ h_notification = <<>>
  /\ pushed_count = 0
  /\ t_pc = "restart"
  /\ timeout = 0
  /\ num_notifications = 1
  /\ deadline = 0
  /\ clock = 0
  /\ returned = <<>>
  /\ cycle = 1
  /\ rolling = FALSE
  /\ qsize_supported = TRUE
  /\ test_versions = 1
  /\ max_writes = 0
  /\ m_pc = "notifications"
  /\ m_pl = "none"
  /\ m_tag = 1
  /\ m_node = 1
  /\ m_exc = "none"
  /\ m_ret = "none"
  /\ InitProcs
  /\ InitExt
  /\ InitData
  /\ InitWait
  /\ InitNodes
  /\ InitUpgrade

NextRestart ==
  \/ NodePushes
  \/ HandleNotificationAppend
  \/ HandleNotificationSet
  \/ RestartNode
  \/ RestartWait
  \/ WaitForNotificationsLoopTest
  \/ EventWait
  \/ EventClear
  \/ LenCheck
  \/ Tick
  \/ AssertLen
  \/ AssertContents
  \/ RestartClear
  \/ ClearEvent
  \/ NextCycle

SpecRestart == InitRestart /\ [][NextRestart]_vars

(***************************************************************************)
(* jmxutils.JolokiaAgent used as a context manager:                        *)
(*     with JolokiaAgent(node) as jmx: <body of queries>                   *)
(***************************************************************************)
\* the upgrade and notification tests at rest
InitCoreIdle ==
  /\ keyspace = "none"
  /\ InitWaiter
  /\ cycle = 0
  /\ rolling = FALSE
  /\ qsize_supported = TRUE
  /\ test_versions = 1
  /\ max_writes = 0
  /\ m_pc = "none"
  /\ m_pl = "none"
  /\ m_tag = 1
  /\ m_node = 1
  /\ m_exc = "none"
  /\ m_ret = "none"
  /\ InitProcs
  /\ InitData
  /\ InitWait
  /\ InitNodes
  /\ InitUpgrade

\* read_attribute, write_attribute and execute_method send a request of type
QueryTypes == {"read", "write", "exec"}

\* what _query meets: a good response, an HTTP response code other than 200,
\* or a response whose status is not 200
QueryOutcomes == {"ok", "http_error", "status_error"}

JmxFrame == UNCHANGED <<coreVars, segVars, policyVars, tagVars, crcVars, permVars, parVars>>

\* __enter__: self.start()
JolokiaEnter ==
  /\ j_pc = "with"
  /\ j_starts' = j_starts + 1
  /\ j_pc' = "start"
  /\ UNCHANGED <<j_stops, j_start_result, j_stop_result, j_body, j_exc, j_caller>>
  /\ JmxFrame

\* start: subprocess.check_output(args) returns, or raises CalledProcessError,
\* which start re-raises and which leaves __enter__ and the with statement
JolokiaStart ==
  /\ j_pc = "start"
  /\ \E ok \in BOOLEAN :
       IF ok
       THEN /\ j_start_result' = "ok"
            /\ j_pc' = "body"
            /\ UNCHANGED j_caller
       ELSE /\ j_start_result' = "CalledProcessError"
            /\ j_caller' = "CalledProcessError"
            /\ j_pc' = "raised"
  /\ UNCHANGED <<j_starts, j_stops, j_stop_result, j_body, j_exc>>
  /\ JmxFrame

\* the body calls read_attribute, write_attribute or execute_method: _query
\* returns the response or raises Exception
JolokiaQuery ==
  /\ j_pc = "body"
  /\ Len(j_body) < MaxBodyOps
  /\ \E type \in QueryTypes, outcome \in QueryOutcomes :
       /\ j_body' = Append(j_body, [type |-> type, outcome |-> outcome])
       /\ IF outcome = "ok"
          THEN UNCHANGED <<j_pc, j_exc>>
          ELSE /\ j_exc' = "Exception"
               /\ j_pc' = "exit"
  /\ UNCHANGED <<j_starts, j_stops, j_start_result, j_stop_result, j_caller>>
  /\ JmxFrame

\* the body completes
JolokiaBodyEnds ==
  /\ j_pc = "body"
  /\ j_pc' = "exit"
  /\ UNCHANGED <<j_starts, j_stops, j_start_result, j_stop_result, j_body, j_exc, j_caller>>
  /\ JmxFrame

\* __exit__(exc_type, value, traceback): self.stop()
JolokiaExit ==
  /\ j_pc = "exit"
  /\ j_stops' = j_stops + 1
  /\ j_pc' = "stop"
  /\ UNCHANGED <<j_starts, j_start_result, j_stop_result, j_body, j_exc, j_caller>>
  /\ JmxFrame

\* stop: subprocess.check_output(args) returns, or raises CalledProcessError,
\* which stop re-raises and which leaves __exit__ in place of the exception
\* of the body
JolokiaStop ==
  /\ j_pc = "stop"
  /\ \E ok \in BOOLEAN :
       IF ok
       THEN /\ j_stop_result' = "ok"
            /\ j_pc' = "exit_return"
            /\ UNCHANGED j_caller
       ELSE /\ j_stop_result' = "CalledProcessError"
            /\ j_caller' = "CalledProcessError"
            /\ j_pc' = "raised"
  /\ UNCHANGED <<j_starts, j_stops, j_start_result, j_body, j_exc>>
  /\ JmxFrame

\* (an __exit__ that returns True whatever happened)
ExitReturnsTrue(exc_type) == TRUE

\* return exc_type is None
ExitReturns(exc_type) == exc_type = "none"

\* the with statement after __exit__ returned: the exception of the body is
\* re-raised unless __exit__ returned a true value
JolokiaExitReturn ==
  /\ j_pc = "exit_return"
  /\ IF j_exc # "none" /\ ~ExitReturns(j_exc)
     THEN /\ j_caller' = j_exc
          /\ j_pc' = "raised"
     ELSE /\ j_pc' = "after"
          /\ UNCHANGED j_caller
  /\ UNCHANGED <<j_starts, j_stops, j_start_result, j_stop_result, j_body, j_exc>>
  /\ JmxFrame

InitJolokia ==
  /\ InitCoreIdle
  /\ InitParallelIdle
  /\ InitPermsIdle
  /\ InitCrcIdle
  /\ InitSegmentsIdle
  /\ InitPolicyIdle
  /\ InitTagsIdle
  /\ j_pc = "with"
  /\ j_starts = 0
  /\ j_stops = 0
  /\ j_start_result = "none"
  /\ j_stop_result = "none"
  /\ j_body = <<>>
  /\ j_exc = "none"
  /\ j_caller = "none"

NextJolokia ==
  \/ JolokiaEnter
  \/ JolokiaStart
  \/ JolokiaQuery
  \/ JolokiaBodyEnds
  \/ JolokiaExit
  \/ JolokiaStop
  \/ JolokiaExitReturn

SpecJolokia == InitJolokia /\ [][NextJolokia]_vars

(***************************************************************************)
(* commitlog_test.TestCommitLog._segment_size_test: the validation of the  *)
(* commitlog files after the stress run.                                   *)
(***************************************************************************)
\* 1024 * 1024
MB == 1048576

\* the segment sizes the tests configure: default_segment_size_test (32) and
\* small_segment_size_test (5), plain and compressed
SegmentSizesInMb == {5, 32}

\* file sizes around every threshold of the check, for a segment of S bytes
FileSizes(S) ==
  {MB - 1, (S \div 10) + 1, S \div 2, (S \div 2) + 1, S - 1, S, S + 1, S + (S \div 10)}

\* all lists of at most n elements of set
SeqsUpTo(set, n) == UNION {[1..k -> set] : k \in 0..n}

\* size_in_mb < 1 or size < (segment_size * 0.1): commitlog not yet used
NotYetUsed(size, segment_size) ==
  (size \div MB) < 1 \/ 10 * size < segment_size

\* assertions.assert_almost_equal(size, segment_size, error=0.05): the smaller
\* value is more than 95% of the larger, or they are equal
AlmostEqual(a, b) ==
  LET vmax == IF a > b THEN a ELSE b
      vmin == IF a > b THEN b ELSE a
  IN 20 * vmin > 19 * vmax \/ vmin = vmax

\* the assertions of the try block pass
ExpectedSize(size, segment_size, compr) ==
  IF compr
  THEN size < segment_size /\ size > segment_size \div 2
  ELSE AlmostEqual(size, segment_size)

SegFrame == UNCHANGED <<coreVars, jmxVars, policyVars, tagVars, crcVars, permVars, parVars>>

\* commitlogs = self._get_commitlog_files(); self.assertTrue(len(commitlogs) > 0);
\* smaller_found = False
SegmentsListed ==
  /\ seg_result = "start"
  /\ IF Len(commitlogs) > 0
     THEN /\ seg_result' = "running"
          /\ seg_i' = 1
     ELSE /\ seg_result' = "AssertionError"
          /\ UNCHANGED seg_i
  /\ smaller_found' = FALSE
  /\ UNCHANGED <<segment_size_in_mb, compressed, commitlogs>>
  /\ SegFrame

\* (a check that never remembers the smaller segment it has let pass)
SmallerFoundNever(found) == found

\* smaller_found = True
SmallerFoundSet(found) == TRUE

\* one pass of the for loop over commitlogs, or its end
SegmentChecked ==
  /\ seg_result = "running"
  /\ IF seg_i > Len(commitlogs)
     THEN /\ seg_result' = "pass"
          /\ UNCHANGED <<seg_i, smaller_found>>
     ELSE LET size == commitlogs[seg_i]
              segment_size == segment_size_in_mb * MB
          IN IF NotYetUsed(size, segment_size) \/ ExpectedSize(size, segment_size, compressed)
             THEN /\ seg_i' = seg_i + 1
                  /\ UNCHANGED <<smaller_found, seg_result>>
             ELSE IF ~smaller_found /\ size <= segment_size
                  THEN /\ smaller_found' = SmallerFoundSet(smaller_found)
                       /\ seg_i' = seg_i + 1
                       /\ UNCHANGED seg_result
                  ELSE /\ seg_result' = "AssertionError"
                       /\ UNCHANGED <<seg_i, smaller_found>>
  /\ UNCHANGED <<segment_size_in_mb, compressed, commitlogs>>
  /\ SegFrame

\* _segment_size_test(segment_size_in_mb, compressed) after the stress run,
\* over any list of commitlog files
InitSegments ==
  /\ InitCoreIdle
  /\ InitParallelIdle
  /\ InitPermsIdle
  /\ InitCrcIdle
  /\ InitJolokiaIdle
  /\ InitPolicyIdle
  /\ InitTagsIdle
  /\ segment_size_in_mb \in SegmentSizesInMb
  /\ compressed \in BOOLEAN
  /\ commitlogs \in SeqsUpTo(FileSizes(segment_size_in_mb * MB), MaxSegments)
  /\ seg_i = 0
  /\ smaller_found = FALSE
  /\ seg_result = "start"

NextSegments ==
  \/ SegmentsListed
  \/ SegmentChecked

SpecSegments == InitSegments /\ [][NextSegments]_vars

(***************************************************************************)
(* commitlog_test: stop_failure_policy_test, stop_commit_failure_policy_   *)
(* test, die_failure_policy_test and ignore_failure_policy_test.  What     *)
(* node1 does after the failure (stay up or exit, what it logs, how it     *)
(* answers) is chosen freely; the tests assert on it.                      *)
(***************************************************************************)
Policies == {"stop", "stop_commit", "die", "ignore"}

\* the messages the tests grep the log of node1 for
LogMessages == {"terminating thread", "Exiting forcefully", "Failed commit log segments"}

\* the pattern of the grep_log call of each test
GrepPattern(pol) ==
  CASE pol = "stop" -> {"terminating thread"}
    [] pol = "stop_commit" -> {"terminating thread"}
    [] pol = "die" -> {"Exiting forcefully"}
    [] pol = "ignore" -> {"Failed commit log segments"}

\* (every test asserting that node1 is running)
ExpectsRunningAlways(pol) == TRUE

\* assertTrue(self.node1.is_running()) or assertFalse(self.node1.is_running())
ExpectsRunning(pol) ==
  CASE pol = "stop" -> TRUE
    [] pol = "stop_commit" -> TRUE
    [] pol = "die" -> FALSE
    [] pol = "ignore" -> TRUE

WriteOutcomes == {"ok", "NoHostAvailable", "WriteTimeout", "OperationTimedOut"}
ReadOutcomes == {"row", "no row", "NoHostAvailable"}

\* what the INSERT after the failure has to meet for the test to go on
ExpectedWrite(pol, win) ==
  CASE pol = "stop" -> {"NoHostAvailable"}
    [] pol = "stop_commit" -> {"OperationTimedOut", "WriteTimeout"}
    [] pol = "ignore" -> IF win THEN {"ok"} ELSE {"OperationTimedOut", "WriteTimeout"}
    [] pol = "die" -> {}

\* what the SELECT after the failure has to meet
ExpectedRead(pol) ==
  CASE pol = "stop" -> {"NoHostAvailable"}
    [] pol = "stop_commit" -> {"row"}
    [] pol = "ignore" -> {"no row"}
    [] pol = "die" -> {}

PolicyFrame == UNCHANGED <<coreVars, jmxVars, segVars, tagVars, crcVars, permVars, parVars>>

\* the test goes on at position next, or fails
GoOn(ok, next) ==
  IF ok
  THEN /\ cl_pc' = next
       /\ UNCHANGED cl_result
  ELSE /\ cl_pc' = "tearDown"
       /\ cl_result' = "failed"

\* self.prepare(configuration={'commit_failure_policy': ...}): the cluster is
\* started; stop_commit_failure_policy_test then inserts a row
Prepare ==
  /\ cl_pc = "prepare"
  /\ cl_running' = TRUE
  /\ cl_pc' = "provoke_insert"
  /\ UNCHANGED <<policy, is_win, cl_perms, cl_log, cl_write, cl_read, cl_result>>
  /\ PolicyFrame

\* _provoke_commitlog_failure: the INSERT and assert_one while all is well
ProvokeInsert ==
  /\ cl_pc = "provoke_insert"
  /\ cl_pc' = "provoke_chmod"
  /\ UNCHANGED <<policy, is_win, cl_running, cl_perms, cl_log, cl_write, cl_read, cl_result>>
  /\ PolicyFrame

\* self._change_commitlog_perms(0)
ProvokeChmod ==
  /\ cl_pc = "provoke_chmod"
  /\ cl_perms' = "none"
  /\ cl_pc' = "provoke_stress"
  /\ UNCHANGED <<policy, is_win, cl_running, cl_log, cl_write, cl_read, cl_result>>
  /\ PolicyFrame

\* self.node1.stress([...]): under the write load node1 meets the failure
ProvokeStress ==
  /\ cl_pc = "provoke_stress"
  /\ cl_running' \in BOOLEAN
  /\ cl_log' \in SUBSET LogMessages
  /\ cl_pc' = "grep_log"
  /\ UNCHANGED <<policy, is_win, cl_perms, cl_write, cl_read, cl_result>>
  /\ PolicyFrame

\* failure = self.node1.grep_log(...); self.assertTrue(failure, ...)
GrepLog ==
  /\ cl_pc = "grep_log"
  /\ GoOn(GrepPattern(policy) \subseteq cl_log, "assert_running")
  /\ UNCHANGED <<policy, is_win, cl_running, cl_perms, cl_log, cl_write, cl_read>>
  /\ PolicyFrame

\* the assertion on self.node1.is_running()
AssertRunning ==
  /\ cl_pc = "assert_running"
  /\ GoOn(cl_running = ExpectsRunning(policy),
          IF policy = "die" THEN "passed" ELSE "after_write")
  /\ UNCHANGED <<policy, is_win, cl_running, cl_perms, cl_log, cl_write, cl_read>>
  /\ PolicyFrame

\* the INSERT after the failure, inside assertRaises or (ignore, on Windows)
\* followed by the assertions on the log and on is_running
AfterWrite ==
  /\ cl_pc = "after_write"
  /\ \E w \in WriteOutcomes :
       /\ cl_write' = w
       /\ GoOn(/\ w \in ExpectedWrite(policy, is_win)
               /\ (policy = "ignore" /\ is_win) =>
                     ("terminating thread" \notin cl_log /\ cl_running),
               IF policy = "ignore" /\ is_win THEN "restore_perms" ELSE "after_read")
  /\ UNCHANGED <<policy, is_win, cl_running, cl_perms, cl_log, cl_read>>
  /\ PolicyFrame

\* the SELECT after the failure
AfterRead ==
  /\ cl_pc = "after_read"
  /\ \E r \in ReadOutcomes :
       /\ cl_read' = r
       /\ GoOn(r \in ExpectedRead(policy),
               IF policy = "ignore" THEN "restore_perms" ELSE "passed")
  /\ UNCHANGED <<policy, is_win, cl_running, cl_perms, cl_log, cl_write>>
  /\ PolicyFrame

\* ignore_failure_policy_test: bring back the node commitlogs
RestorePerms ==
  /\ cl_pc = "restore_perms"
  /\ cl_perms' = "rwx"
  /\ cl_pc' = "passed"
  /\ UNCHANGED <<policy, is_win, cl_running, cl_log, cl_write, cl_read, cl_result>>
  /\ PolicyFrame

\* the test method returns
PolicyTestPasses ==
  /\ cl_pc = "passed"
  /\ cl_result' = "passed"
  /\ cl_pc' = "tearDown"
  /\ UNCHANGED <<policy, is_win, cl_running, cl_perms, cl_log, cl_write, cl_read>>
  /\ PolicyFrame

\* tearDown: self._change_commitlog_perms(S_IWRITE | S_IREAD | S_IEXEC)
PolicyTearDown ==
  /\ cl_pc = "tearDown"
  /\ cl_perms' = "rwx"
  /\ cl_pc' = "done"
  /\ UNCHANGED <<policy, is_win, cl_running, cl_log, cl_write, cl_read, cl_result>>
  /\ PolicyFrame

\* one of the four tests after setUp, on either platform
InitPolicy ==
  /\ InitCoreIdle
  /\ InitParallelIdle
  /\ InitPermsIdle
  /\ InitCrcIdle
  /\ InitJolokiaIdle
  /\ InitSegmentsIdle
  /\ InitTagsIdle
  /\ policy \in Policies
  /\ is_win \in BOOLEAN
  /\ cl_pc = "prepare"
  /\ cl_running = FALSE
  /\ cl_perms = "rwx"
  /\ cl_log = {}
  /\ cl_write = "none"
  /\ cl_read = "none"
  /\ cl_result = "none"

NextPolicy ==
  \/ Prepare
  \/ ProvokeInsert
  \/ ProvokeChmod
  \/ ProvokeStress
  \/ GrepLog
  \/ AssertRunning
  \/ AfterWrite
  \/ AfterRead
  \/ RestorePerms
  \/ PolicyTestPasses
  \/ PolicyTearDown

SpecPolicy == InitPolicy /\ [][NextPolicy]_vars

(***************************************************************************)
(* latest_tag_matching(ver_tuple) and GitSemVer.__cmp__.                   *)
(* A tag is the string  prefix c1 sep c3 "." patch nick  where c1 and c3   *)
(* are digits and sep is the character between them: "cassandra-2.1.0",    *)
(* "2.1.0-rc1", "cassandra-201.0".                                         *)
(***************************************************************************)
TagUniverse ==
  [prefix : {"cassandra-", ""}, major : {2}, sep : {".", "0"}, minor : {0, 1},
   patch : {0, 1}, nick : {"", "rc1"}]

\* the version tuples asked for
VerTuples == {<<2, 0>>, <<2, 1>>}

\* all subsets of set with at most n elements
RECURSIVE SubsetsUpTo(_, _)
SubsetsUpTo(set, n) ==
  IF n = 0 THEN {{}}
  ELSE LET smaller == SubsetsUpTo(set, n - 1)
       IN smaller \cup {t \cup {x} : t \in smaller, x \in set}

\* re.match('^cassandra-({ver_str}\.\d+(-+\w+)*)$', t) or
\* re.match('^({ver_str}\.\d*(-+\w+)*)$', t) with ver_str = 'X.Y': the dot of
\* ver_str is not escaped and matches any character
Match(ver, t) == t.major = ver[1] /\ t.minor = ver[2]

\* the components LooseVersion parses out of match.group(1); a string
\* component ranks above every number: "-" is 1000 and "rc" is 1002
SemVer(t) ==
  (IF t.sep = "." THEN <<t.major, t.minor, t.patch>>
   ELSE <<100 * t.major + t.minor, t.patch>>)
  \o (IF t.nick = "" THEN <<>> ELSE <<1000, 1002, 1>>)

\* cmp of two lists
RECURSIVE CmpList(_, _)
CmpList(a, b) ==
  IF a = <<>> /\ b = <<>> THEN 0
  ELSE IF a = <<>> THEN -1
  ELSE IF b = <<>> THEN 1
  ELSE IF Head(a) < Head(b) THEN -1
  ELSE IF Head(a) > Head(b) THEN 1
  ELSE CmpList(Tail(a), Tail(b))

\* match.group(1) of the two tags is the same string
SameVString(a, b) ==
  a.major = b.major /\ a.sep = b.sep /\ a.minor = b.minor /\ a.patch = b.patch
  /\ a.nick = b.nick

\* a.semver.vstring + "-" in b.semver.vstring
DashedIn(a, b) ==
  a.major = b.major /\ a.sep = b.sep /\ a.minor = b.minor /\ a.patch = b.patch
  /\ a.nick = "" /\ b.nick # ""

\* GitSemVer.__cmp__(self, other)
GitSemVerCmp(a, b) ==
  IF (Len(SemVer(a)) <= 3 \/ Len(SemVer(b)) <= 3) /\ DashedIn(a, b) THEN 1
  ELSE IF (Len(SemVer(a)) <= 3 \/ Len(SemVer(b)) <= 3) /\ DashedIn(b, a) THEN -1
  ELSE IF (Len(SemVer(a)) <= 3 \/ Len(SemVer(b)) <= 3) /\ SameVString(a, b) THEN 0
  ELSE CmpList(SemVer(a), SemVer(b))

\* bisect.bisect_right(list, x, lo, hi)
RECURSIVE BisectRight(_, _, _, _)
BisectRight(list, x, lo, hi) ==
  IF lo < hi
  THEN LET mid == (lo + hi) \div 2
       IN IF GitSemVerCmp(x, list[mid + 1]) < 0
          THEN BisectRight(list, x, lo, mid)
          ELSE BisectRight(list, x, mid + 1, hi)
  ELSE lo

\* bisect.insort(list, x)
Insort(list, x) ==
  LET at == BisectRight(list, x, 0, Len(list))
  IN SubSeq(list, 1, at) \o <<x>> \o SubSeq(list, at + 1, Len(list))

TagFrame == UNCHANGED <<coreVars, jmxVars, segVars, policyVars, crcVars, permVars, parVars>>

\* one pass of  for t in MAPPED_REFS['tags'].keys()  (the order of the keys
\* of a dict is arbitrary)
TagVisited ==
  /\ lt_pc = "loop"
  /\ \E t \in lt_todo :
       /\ lt_todo' = lt_todo \ {t}
       /\ wrappers' = IF Match(ver_tuple, t) THEN Insort(wrappers, t) ELSE wrappers
  /\ UNCHANGED <<ver_tuple, tags, lt_pc, latest>>
  /\ TagFrame

\* if wrappers: return wrappers.pop().git_ref;  return None
TagReturned ==
  /\ lt_pc = "loop"
  /\ lt_todo = {}
  /\ latest' = IF wrappers # <<>> THEN <<wrappers[Len(wrappers)]>> ELSE <<>>
  /\ lt_pc' = "returned"
  /\ UNCHANGED <<ver_tuple, tags, lt_todo, wrappers>>
  /\ TagFrame

\* latest_tag_matching(ver_tuple) over any set of tags
InitTags ==
  /\ InitCoreIdle
  /\ InitParallelIdle
  /\ InitPermsIdle
  /\ InitCrcIdle
  /\ InitJolokiaIdle
  /\ InitSegmentsIdle
  /\ InitPolicyIdle
  /\ ver_tuple \in VerTuples
  /\ tags \in SubsetsUpTo(TagUniverse, MaxTags)
  /\ lt_todo = tags
  /\ wrappers = <<>>
  /\ lt_pc = "loop"
  /\ latest = <<>>

NextTags ==
  \/ TagVisited
  \/ TagReturned

SpecTags == InitTags /\ [][NextTags]_vars

(***************************************************************************)
(* test_bad_crc and test_compression_error: the loop that corrupts the     *)
(* header of every commitlog segment.  A file is the sequence of its bytes. *)
(* A segment starts with the version (4 bytes) and the segment id (8       *)
(* bytes); from version 5 on the length of the compression parameters (2   *)
(* bytes) and the parameters follow; then the CRC of the header (4 bytes)  *)
(* and the mutations.                                                      *)
(***************************************************************************)
\* struct.pack('>i', 123456)
Crap == 123456
\* the bytes of the class name in the compression parameters, taken as one
LZ4Compressor == 204
LZ5Compressor == 205

\* struct.pack('>i', v) and struct.pack('>h', v)
PackInt(v) == <<(v \div 16777216) % 256, (v \div 65536) % 256, (v \div 256) % 256, v % 256>>
PackShort(v) == <<(v \div 256) % 256, v % 256>>

\* struct.unpack('>i', bytes)[0] and struct.unpack('>h', bytes)[0] & 0xFFFF
UnpackInt(b) == 16777216 * b[1] + 65536 * b[2] + 256 * b[3] + b[4]
UnpackShort(b) == 256 * b[1] + b[2]

\* f.seek(pos); f.read(n)
ReadAt(f, pos, n) ==
  SubSeq(f, pos + 1, IF pos + n <= Len(f) THEN pos + n ELSE Len(f))

\* f.seek(pos); f.write(bytes): a gap between the end of the file and pos is
\* filled with zero bytes
WriteAt(f, pos, bytes) ==
  LET end == IF pos + Len(bytes) > Len(f) THEN pos + Len(bytes) ELSE Len(f)
  IN [i \in 1..end |->
        IF i > pos /\ i <= pos + Len(bytes) THEN bytes[i - pos]
        ELSE IF i <= Len(f) THEN f[i] ELSE 0]

\* open(path, 'w'): the file is truncated to length zero
OpenW(f) == <<>>

\* binascii.crc32, as a checksum that depends on every byte and its place
RECURSIVE Crc32(_)
Crc32(b) == IF b = <<>> THEN 0 ELSE (Crc32(SubSeq(b, 1, Len(b) - 1)) * 31 + b[Len(b)] + 1) % 65521

\* get_header_crc(header)
GetHeaderCrc(header) ==
  Crc32(SubSeq(header, 1, 4) \o SubSeq(header, 9, 12) \o SubSeq(header, 5, 8)
        \o <<0, 0>> \o SubSeq(header, 13, 14) \o SubSeq(header, 15, Len(header)))

\* header_bytes.replace('LZ4Compressor', 'LZ5Compressor')
Replace(b) == [i \in 1..Len(b) |-> IF b[i] = LZ4Compressor THEN LZ5Compressor ELSE b[i]]

\* the header of a segment of this version with these compression parameters
SegmentHeader(version, params) ==
  PackInt(version) \o <<1, 2, 3, 4, 5, 6, 7, 8>>
  \o (IF version >= 5 THEN PackShort(Len(params)) \o params ELSE <<>>)

\* the segment node1 wrote: the CRC is the one Cassandra computes
Segment(version, params, body) ==
  SegmentHeader(version, params)
  \o PackInt(IF version >= 5 THEN GetHeaderCrc(SegmentHeader(version, params)) ELSE 77)
  \o body

\* the mutations after the header, up to MaxBodyBytes bytes
Bodies == {[i \in 1..n |-> 100 + i] : n \in 0..MaxBodyBytes}

\* the segments node1 can leave behind in either test
SegmentsOf(test) ==
  IF test = "bad_crc"
  THEN {Segment(v, pr, b) : v \in {4, 5}, pr \in {<<>>, <<LZ4Compressor, 9>>}, b \in Bodies}
  ELSE {Segment(6, pr, b) : pr \in {<<LZ4Compressor>>, <<LZ4Compressor, 9>>}, b \in Bodies}

CrcFrame == UNCHANGED <<coreVars, jmxVars, segVars, policyVars, tagVars, permVars, parVars>>

\* the file the loop works on
Cl == cf_disk[cf_i]

\* the loop goes on with the next file of os.listdir(cl_dir)
NextFile ==
  /\ cf_i' = cf_i + 1
  /\ cf_pc' = IF cf_i < Len(cf_disk) THEN "locate" ELSE "done"

\* test_bad_crc: locate the CRC location
BadCrcLocate ==
  /\ cf_test = "bad_crc" /\ cf_pc = "locate"
  /\ crc_pos' = IF UnpackInt(ReadAt(Cl, 0, 4)) >= 5
                THEN 12 + 2 + UnpackShort(ReadAt(Cl, 12, 2))
                ELSE 12
  /\ cf_pc' = "rewrite"
  /\ UNCHANGED <<cf_test, cf_orig, cf_disk, cf_i, header_bytes>>
  /\ CrcFrame

\* test_bad_crc: with open(..., 'w') as f: f.seek(crc_pos); f.write(struct.pack('>i', 123456))
BadCrcRewrite ==
  /\ cf_test = "bad_crc" /\ cf_pc = "rewrite"
  /\ cf_disk' = [cf_disk EXCEPT ![cf_i] = WriteAt(OpenW(@), crc_pos, PackInt(Crap))]
  /\ cf_pc' = "verify"
  /\ UNCHANGED <<cf_test, cf_orig, cf_i, crc_pos, header_bytes>>
  /\ CrcFrame

\* test_bad_crc: self.assertEqual(crc, 123456)
BadCrcVerify ==
  /\ cf_test = "bad_crc" /\ cf_pc = "verify"
  /\ IF ReadAt(Cl, crc_pos, 4) = PackInt(Crap)
     THEN NextFile
     ELSE cf_pc' = "AssertionError" /\ UNCHANGED cf_i
  /\ UNCHANGED <<cf_test, cf_orig, cf_disk, crc_pos, header_bytes>>
  /\ CrcFrame

\* test_compression_error: read the header and find the crc location;
\* self.assertEqual(get_header_crc(header_bytes), crc)
CompressionLocate ==
  /\ cf_test = "compression_error" /\ cf_pc = "locate"
  /\ crc_pos' = 12 + 2 + UnpackShort(ReadAt(Cl, 12, 2))
  /\ header_bytes' = ReadAt(Cl, 0, crc_pos')
  /\ cf_pc' = IF PackInt(GetHeaderCrc(header_bytes')) = ReadAt(Cl, crc_pos', 4)
              THEN "replace" ELSE "AssertionError"
  /\ UNCHANGED <<cf_test, cf_orig, cf_disk, cf_i>>
  /\ CrcFrame

\* self.assertIn('LZ4Compressor', header_bytes); header_bytes = header_bytes.replace(...)
CompressionReplace ==
  /\ cf_test = "compression_error" /\ cf_pc = "replace"
  /\ IF LZ4Compressor \in {header_bytes[i] : i \in 1..Len(header_bytes)}
     THEN /\ header_bytes' = Replace(header_bytes)
          /\ cf_pc' = "rewrite"
     ELSE /\ cf_pc' = "AssertionError"
          /\ UNCHANGED header_bytes
  /\ UNCHANGED <<cf_test, cf_orig, cf_disk, cf_i, crc_pos>>
  /\ CrcFrame

\* with open(..., 'w') as f: f.seek(0); f.write(header_bytes); f.seek(crc_pos);
\* f.write(struct.pack('>i', get_header_crc(header_bytes)))
CompressionRewrite ==
  /\ cf_test = "compression_error" /\ cf_pc = "rewrite"
  /\ cf_disk' = [cf_disk EXCEPT ![cf_i] =
       WriteAt(WriteAt(OpenW(@), 0, header_bytes), crc_pos,
               PackInt(GetHeaderCrc(header_bytes)))]
  /\ cf_pc' = "verify"
  /\ UNCHANGED <<cf_test, cf_orig, cf_i, crc_pos, header_bytes>>
  /\ CrcFrame

\* verify we wrote everything correctly
CompressionVerify ==
  /\ cf_test = "compression_error" /\ cf_pc = "verify"
  /\ IF /\ ReadAt(Cl, 0, crc_pos) = header_bytes
        /\ ReadAt(Cl, crc_pos, 4) = PackInt(GetHeaderCrc(header_bytes))
     THEN NextFile
     ELSE cf_pc' = "AssertionError" /\ UNCHANGED cf_i
  /\ UNCHANGED <<cf_test, cf_orig, cf_disk, crc_pos, header_bytes>>
  /\ CrcFrame

\* all sequences of elements of set of length 1..n
SeqsFrom(set, n) == UNION {[1..k -> set] : k \in 1..n}

\* either test after node.stop(gently=False), with the commitlog files node1
\* left behind (self.assertTrue(len(os.listdir(cl_dir)) > 0))
InitCrc ==
  /\ InitCoreIdle
  /\ InitParallelIdle
  /\ InitPermsIdle
  /\ InitJolokiaIdle
  /\ InitSegmentsIdle
  /\ InitPolicyIdle
  /\ InitTagsIdle
  /\ cf_test \in {"bad_crc", "compression_error"}
  /\ cf_orig \in SeqsFrom(SegmentsOf(cf_test), MaxCrcFiles)
  /\ cf_disk = cf_orig
  /\ cf_i = 1
  /\ cf_pc = "locate"
  /\ crc_pos = 0
  /\ header_bytes = <<>>

NextCrc ==
  \/ BadCrcLocate
  \/ BadCrcRewrite
  \/ BadCrcVerify
  \/ CompressionLocate
  \/ CompressionReplace
  \/ CompressionRewrite
  \/ CompressionVerify

SpecCrc == InitCrc /\ [][NextCrc]_vars

(***************************************************************************)
(* _change_commitlog_perms(mod).  A mode is the set of the owner's         *)
(* permissions; the test process owns the directory and its files.         *)
(***************************************************************************)
Modes == SUBSET {"r", "w", "x"}

\* stat.S_IWRITE | stat.S_IREAD | stat.S_IEXEC, the argument tearDown passes
OwnerAll == {"r", "w", "x"}

\* os.listdir(dir) succeeds: glob.glob returns [] when it does not
Listable(dir, root) == root \/ "r" \in dir

\* a path below dir can be resolved: os.chmod of a file raises OSError when not
Searchable(dir, root) == root \/ "x" \in dir

PermFrame == UNCHANGED <<coreVars, jmxVars, segVars, policyVars, tagVars, crcVars, parVars>>

\* os.chmod(path, mod)
ChmodDir ==
  /\ cp_pc = "chmod_dir"
  /\ cp_dir' = cp_mod
  /\ cp_pc' = "glob"
  /\ UNCHANGED <<cp_mod, is_root, cp_files, cp_commitlogs, cp_i>>
  /\ PermFrame

\* commitlogs = glob.glob(path + '/*')
GlobCommitlogs ==
  /\ cp_pc = "glob"
  /\ cp_commitlogs' = IF Listable(cp_dir, is_root)
                      THEN [i \in 1..Len(cp_files) |-> i] ELSE <<>>
  /\ cp_i' = 1
  /\ cp_pc' = IF cp_commitlogs' = <<>> THEN "returned" ELSE "chmod_file"
  /\ UNCHANGED <<cp_mod, is_root, cp_dir, cp_files>>
  /\ PermFrame

\* for commitlog in commitlogs: os.chmod(commitlog, mod)
ChmodFile ==
  /\ cp_pc = "chmod_file"
  /\ IF Searchable(cp_dir, is_root)
     THEN /\ cp_files' = [cp_files EXCEPT ![cp_commitlogs[cp_i]] = cp_mod]
          /\ cp_i' = cp_i + 1
          /\ cp_pc' = IF cp_i < Len(cp_commitlogs) THEN "chmod_file" ELSE "returned"
     ELSE /\ cp_pc' = "OSError"
          /\ UNCHANGED <<cp_files, cp_i>>
  /\ UNCHANGED <<cp_mod, is_root, cp_dir, cp_commitlogs>>
  /\ PermFrame

\* a call with any mod, on a directory of up to MaxPermFiles files that node1
\* created (modes rw) or that an earlier call has changed
InitPerms ==
  /\ InitCoreIdle
  /\ InitParallelIdle
  /\ InitJolokiaIdle
  /\ InitSegmentsIdle
  /\ InitPolicyIdle
  /\ InitTagsIdle
  /\ InitCrcIdle
  /\ cp_mod \in Modes
  /\ is_root \in BOOLEAN
  /\ cp_dir \in {OwnerAll, {}}
  /\ cp_files \in UNION {[1..k -> {{"r", "w"}, {}, OwnerAll}] : k \in 0..MaxPermFiles}
  /\ cp_commitlogs = <<>>
  /\ cp_i = 1
  /\ cp_pc = "chmod_dir"

NextPerms ==
  \/ ChmodDir
  \/ GlobCommitlogs
  \/ ChmodFile

SpecPerms == InitPerms /\ [][NextPerms]_vars

(***************************************************************************)
(* The data of the parallel scenario: what the loop over the tags writes   *)
(* before each upgrade and checks after it.                                *)
(***************************************************************************)
\* the rows the scenario can write
RowKeys == 1..(RowsPerCall * (NumParallelVersions - 1))

\* the counters the scenario can increment: key1 is a fresh uuid4 of the call
\* of _increment_counters (made for tag), key2 a number
Counters == (2..NumParallelVersions) \X (1..KeysPerCall) \X (1..NumKey2)

\* self.expected_counts = {}; ten times defaultdict(int): no counter has an entry
NoCounts == [c \in Counters |-> 0]

\* the counters that have an entry in a dict of counts
Keys(counts) == {c \in Counters : counts[c] > 0}

ParFrame == UNCHANGED <<coreVars, jmxVars, segVars, policyVars, tagVars, crcVars, permVars>>

\* _write_values, one pass of its loop: x = len(self.row_values) + 1; the
\* UPDATE; self.row_values.add(x).  The statement may raise.
WriteValue ==
  /\ pd_pc = "write_values"
  /\ LET x == Cardinality(row_values) + 1 IN
     \E ok \in BOOLEAN :
       IF ok
       THEN /\ cf_writes' = [cf_writes EXCEPT ![x] = @ + 1]
            /\ row_values' = row_values \cup {x}
            /\ wv_i' = IF wv_i + 1 < RowsPerCall THEN wv_i + 1 ELSE 0
            /\ pd_pc' = IF wv_i + 1 < RowsPerCall THEN "write_values"
                        ELSE "increment_counters"
       ELSE /\ pd_pc' = "raised"
            /\ UNCHANGED <<cf_writes, row_values, wv_i>>
  /\ UNCHANGED <<pd_tag, expected_counts, completed, fail_count, ic_i, rows_read,
                 counters_compared>>
  /\ ParFrame

\* _increment_counters up to its loop: self.expected_counts = {} with ten
\* fresh keys; fail_count = 0
IncrementCountersEnter ==
  /\ pd_pc = "increment_counters"
  /\ expected_counts' = NoCounts
  /\ fail_count' = 0
  /\ ic_i' = 0
  /\ pd_pc' = "increment"
  /\ UNCHANGED <<pd_tag, row_values, wv_i, cf_writes, completed, rows_read,
                 counters_compared>>
  /\ ParFrame

\* one pass of the loop of _increment_counters: the UPDATE of a counter chosen
\* at random, which completes, raises WriteTimeout or raises something else;
\* then if fail_count > 100: break
IncrementCounter ==
  /\ pd_pc = "increment"
  /\ ic_i < Opcount
  /\ \E key1 \in 1..KeysPerCall, key2 \in 1..NumKey2,
        outcome \in {"done", "WriteTimeout", "raise"} :
       LET c == <<pd_tag, key1, key2>> IN
       CASE outcome = "done" ->
              /\ expected_counts' = [expected_counts EXCEPT ![c] = @ + 1]
              /\ completed' = [completed EXCEPT ![c] = @ + 1]
              /\ ic_i' = ic_i + 1
              /\ pd_pc' = IF ic_i' < Opcount THEN "increment" ELSE "assert_fail_count"
              /\ UNCHANGED fail_count
         [] outcome = "WriteTimeout" ->
              /\ fail_count' = fail_count + 1
              /\ ic_i' = ic_i + 1
              /\ pd_pc' = IF fail_count' > FailLimit \/ ic_i' >= Opcount
                          THEN "assert_fail_count" ELSE "increment"
              /\ UNCHANGED <<expected_counts, completed>>
         [] outcome = "raise" ->
              /\ pd_pc' = "raised"
              /\ UNCHANGED <<expected_counts, completed, fail_count, ic_i>>
  /\ UNCHANGED <<pd_tag, row_values, wv_i, cf_writes, rows_read, counters_compared>>
  /\ ParFrame

\* assert fail_count < 100, "Too many counter increment failures"
IncrementCountersAssert ==
  /\ pd_pc = "assert_fail_count"
  /\ pd_pc' = IF fail_count < FailLimit THEN "upgrade" ELSE "raised"
  /\ UNCHANGED <<pd_tag, row_values, wv_i, cf_writes, expected_counts, completed,
                 fail_count, ic_i, rows_read, counters_compared>>
  /\ ParFrame

\* the metadata schemas, self.upgrade_to_version(tag) and
\* self.cluster.set_install_dir(...): they return or raise
UpgradeToTag ==
  /\ pd_pc = "upgrade"
  /\ \E ok \in BOOLEAN : pd_pc' = IF ok THEN "check_values" ELSE "raised"
  /\ UNCHANGED <<pd_tag, row_values, wv_i, cf_writes, expected_counts, completed,
                 fail_count, ic_i, rows_read, counters_compared>>
  /\ ParFrame

\* _check_values: on every node, every x of self.row_values is read and
\* compared; a statement or a comparison may fail
CheckValuesOnNodes ==
  /\ pd_pc = "check_values"
  /\ \E ok \in BOOLEAN :
       IF ok
       THEN /\ rows_read' = Nodes \X row_values
            /\ pd_pc' = "check_counters"
       ELSE /\ pd_pc' = "raised"
            /\ UNCHANGED rows_read
  /\ UNCHANGED <<pd_tag, row_values, wv_i, cf_writes, expected_counts, completed,
                 fail_count, ic_i, counters_compared>>
  /\ ParFrame

\* _check_counters: every key2 of every key1 of self.expected_counts is read
\* and compared; then _check_select_count and the metadata checks, and the
\* next tag of the loop
CheckCounters ==
  /\ pd_pc = "check_counters"
  /\ \E ok \in BOOLEAN :
       IF ok
       THEN /\ counters_compared' = Keys(expected_counts)
            /\ IF pd_tag < NumParallelVersions
               THEN /\ pd_tag' = pd_tag + 1
                    /\ pd_pc' = "write_values"
               ELSE /\ pd_pc' = "done"
                    /\ UNCHANGED pd_tag
       ELSE /\ pd_pc' = "raised"
            /\ UNCHANGED <<pd_tag, counters_compared>>
  /\ UNCHANGED <<row_values, wv_i, cf_writes, expected_counts, completed,
                 fail_count, ic_i, rows_read>>
  /\ ParFrame

\* upgrade_scenario(rolling=False) at the first pass of its loop over
\* test_versions[1:]: self.row_values = set() of setUp
InitParallel ==
  /\ InitCoreIdle
  /\ InitJolokiaIdle
  /\ InitSegmentsIdle
  /\ InitPolicyIdle
  /\ InitTagsIdle
  /\ InitCrcIdle
  /\ InitPermsIdle
  /\ pd_pc = "write_values"
  /\ pd_tag = 2
  /\ row_values = {}
  /\ wv_i = 0
  /\ cf_writes = [x \in RowKeys |-> 0]
  /\ expected_counts = NoCounts
  /\ completed = NoCounts
  /\ fail_count = 0
  /\ ic_i = 0
  /\ rows_read = {}
  /\ counters_compared = {}

NextParallel ==
  \/ WriteValue
  \/ IncrementCountersEnter
  \/ IncrementCounter
  \/ IncrementCountersAssert
  \/ UpgradeToTag
  \/ CheckValuesOnNodes
  \/ CheckCounters

SpecParallel == InitParallel /\ [][NextParallel]_vars

(***************************************************************************)
(* A writer and a checker on one pair of queues: data_writer feeds          *)
(* data_checker or counter_checker, and the parent may terminate either.   *)
(***************************************************************************)
CheckerFunctions == {"data_checker", "counter_checker"}

InitCheckers ==
  /\ keyspace = "none"
  /\ InitWaiter
  /\ cycle = 0
  /\ rolling = FALSE
  /\ qsize_supported = TRUE
  /\ test_versions = 1
  /\ max_writes = MaxWrites
  /\ m_pc = "none"
  /\ m_pl = "none"
  /\ m_tag = 1
  /\ m_node = 1
  /\ m_exc = "none"
  /\ m_ret = "none"
  /\ InitExt
  /\ InitData
  /\ InitWait
  /\ InitNodes
  /\ InitUpgrade
  /\ subprocs = <<"writer", "verifier">>
  /\ pstate = [p \in Procs |-> IF p \in {"writer", "verifier"} THEN "alive" ELSE "new"]
  /\ \E fn \in CheckerFunctions :
       target = [p \in Procs |-> IF p = "writer" THEN "data_writer"
                                 ELSE IF p = "verifier" THEN fn ELSE "none"]
  /\ sigterm = [p \in Procs |-> FALSE]
  /\ ppc = [p \in Procs |-> IF p \in {"writer", "verifier"} THEN "connect" ELSE "new"]
  /\ plocal = [p \in Procs |-> NoLocals]

\* the passes of data_checker that find the queue empty
DataCheckerPoll(p) ==
  \/ DataCheckerEmpty(p)
  \/ DataCheckerSleep(p)

NextCheckers ==
  \E p \in {"writer", "verifier"} :
    \/ ProcStep(p)
    \/ DataCheckerPoll(p)
    \/ CounterCheckerStep(p)
    \/ ProcTerminate(p)

SpecCheckers == InitCheckers /\ [][NextCheckers]_vars

\* a subprocess that is alive keeps running
SpecCheckersFair ==
  /\ SpecCheckers
  /\ WF_vars(ProcStep("verifier"))
  /\ WF_vars(DataCheckerPoll("verifier"))
  /\ WF_vars(CounterCheckerStep("verifier"))

(***************************************************************************)
(* Properties                                                              *)
(***************************************************************************)
\* the function each local process name of the two _start_continuous_*
\* methods stands for
IntendedTarget(p) ==
  CASE p = "writer" -> "data_writer"
    [] p = "verifier" -> "data_checker"
    [] p = "incrementer" -> "counter_incrementer"
    [] p = "count_verifier" -> "counter_checker"

\* C1: the started subprocesses run the function they are named for, so that
\* the four running subprocesses of a rolling upgrade are a data writer, a
\* data verifier, a counter incrementer and a counter checker.
C1_FourFunctions ==
  /\ \A p \in Procs : pstate[p] # "new" => target[p] = IntendedTarget(p)
  /\ (\A p \in Procs : IsAlive(p)) => {target[p] : p \in Procs} = Functions

\* the largest maxsize any queue of a pipeline is created with
LargestMaxsize ==
  IF ToVerifyMaxsize > VerificationDoneMaxsize
  THEN ToVerifyMaxsize ELSE VerificationDoneMaxsize

\* C2 (as claimed): neither queue of a pipeline ever holds more than a fixed
\* maximum number of entries (the maxsize the queues are created with).
C2_BothQueuesBounded ==
  \A pl \in Pipelines :
    /\ Len(to_verify_queue[pl]) <= LargestMaxsize
    /\ Len(verification_done_queue[pl]) <= LargestMaxsize

\* C2 (amended): verification_done_queue never holds more than its maxsize;
\* to_verify_queue has no maximum: a writer about to put is never refused,
\* whatever the length of the queue.
C2_OnlyDoneQueueBounded ==
  /\ \A pl \in Pipelines :
       Len(verification_done_queue[pl]) <= VerificationDoneMaxsize
  /\ \A p \in Procs :
       (IsAlive(p) /\ target[p] = "data_writer" /\ ppc[p] = "put")
         => ~QueueFull(to_verify_queue[PipelineOf(p)], ToVerifyMaxsize)

\* a checker holds a verified key that the full verification_done_queue
\* refused, while to_verify_queue holds more entries than that maxsize
C2_Witness ==
  \E p \in Procs :
    /\ IsAlive(p) /\ target[p] = "data_checker" /\ ppc[p] = "assert"
    /\ <<PipelineOf(p), plocal[p].key, plocal[p].val>> \notin offered
    /\ Len(verification_done_queue[PipelineOf(p)]) = VerificationDoneMaxsize

\* the rolling scenario has killed its verifiers and is about to return
\* without an exception
RollingSucceeded ==
  /\ rolling /\ m_exc = "none"
  /\ m_pc = "cluster_stop"

\* C3: where queue sizes can be read, the rolling scenario never gets past
\* the final checks while an entry pushed on a to_verify_queue has not been
\* compared equal by the verifier.
C3_AllPushedCompared ==
  (RollingSucceeded /\ qsize_supported) => pushed \subseteq compared

\* C4: a key whose comparison fails has never been put on
\* verification_done_queue by the checker.
C4_FailedNeverOffered == offered \cap failed = {}

\* C5: a call of _wait_until_queue_condition that has ended either returned
\* after the condition (or NotImplementedError) was observed, or raised
\* RuntimeError.
C5_TwoWaysToEnd ==
  (wq_pc = "idle" /\ wq_result # "none") =>
     \/ wq_result = "returned" /\ wq_observed \in {"condition", "NotImplementedError"}
     \/ wq_result = "RuntimeError"

\* the subprocesses given to the _check_on_subprocs call at position pc
GivenAt(pc) ==
  IF pc = "check_on_subprocs" THEN subprocs ELSE <<"verifier", "count_verifier">>

Listed == IF u_partial THEN Range(u_arg) ELSE Nodes

C9_ParallelStopsAll ==
  ~rolling =>
    /\ \A n1, n2 \in Nodes :
         (running[n1] /\ running[n2]) => node_ver[n1] = node_ver[n2]
    /\ (m_pc = "in_upgrade" /\
        (u_pc \in {"set_install_dir", "update_topology"} \/ (u_pc = "start" /\ u_i = 1)))
         => \A n \in Nodes : ~running[n]

\* the parallel scenario is between stopping and starting: every install
\* directory is set to the new version and no node is running
C9_Witness ==
  /\ ~rolling /\ m_pc = "in_upgrade" /\ u_pc = "update_topology"
  /\ \A n \in Nodes : ~running[n] /\ install_dir[n] = u_tag

\* C10: a call of wait_for_notifications never waits out its whole timeout
\* in event.wait while self.notifications holds at least num_notifications
\* entries (the event being clear and no handle_notification under way, those
\* entries were already held when the call was made).
C10_StopsWaiting ==
  ~ /\ t_pc = "event_wait" /\ ~event /\ h_pc = "idle"
    /\ timeout > 0 /\ clock >= deadline
    /\ Len(notifications) >= num_notifications

\* the test thread is inside a call of wait_for_notifications
InWaitForNotifications == t_pc \in {"loop_test", "event_wait", "event_clear", "len_check"}

Positions(list, ct) ==
  {i \in 1..Len(list) : list[i].address = "node2" /\ list[i].change_type = ct}

\* C12: when the assertions of a cycle of restart_node_test have passed, the
\* waiter holds exactly one DOWN and exactly one UP notification of node2
\* collected in this cycle, DOWN before UP; and clear_notifications leaves
\* nothing of the cycle in self.notifications.
C12_OneDownOneUp ==
  /\ [](t_pc = "call_clear" =>
          /\ Cardinality(Positions(notifications, "DOWN")) = 1
          /\ Cardinality(Positions(notifications, "UP")) = 1
          /\ \A i \in Positions(notifications, "DOWN") :
               \A j \in Positions(notifications, "UP") : i < j)
  /\ [][(t_pc = "call_clear" /\ t_pc' # t_pc) => notifications' = <<>>]_vars

\* the with statement has ended
JolokiaEnded == j_pc \in {"after", "raised"}

\* start before the body, stop after it, each at most once; a failed start
\* runs neither the body nor stop
JolokiaOrder ==
  /\ j_starts <= 1 /\ j_stops <= 1
  /\ j_pc \in {"body", "exit"} => (j_start_result = "ok" /\ j_starts = 1 /\ j_stops = 0)
  /\ j_body # <<>> => j_start_result = "ok"
  /\ j_start_result = "CalledProcessError" => (j_body = <<>> /\ j_stops = 0)
  /\ (JolokiaEnded /\ j_start_result = "ok") => (j_starts = 1 /\ j_stops = 1)

\* C13 (as claimed): start once before the body, stop once after it; an
\* exception raised by the body always reaches the caller; a failed start
\* runs neither the body nor stop.
C13_BodyExceptionPropagates ==
  /\ JolokiaOrder
  /\ (JolokiaEnded /\ j_exc # "none") => j_caller = j_exc

\* C13 (amended): as above, but the exception of the body reaches the caller
\* only if stop succeeds; when stop raises CalledProcessError, that exception
\* leaves the with statement instead.  Nothing is raised when the body
\* completes and stop succeeds.
C13_PropagatesIfStopSucceeds ==
  /\ JolokiaOrder
  /\ (JolokiaEnded /\ j_exc # "none" /\ j_stop_result = "ok") => j_caller = j_exc
  /\ (JolokiaEnded /\ j_stop_result = "CalledProcessError") => j_caller = "CalledProcessError"
  /\ j_pc = "after" => (j_exc = "none" /\ j_caller = "none")

\* the body raised, stop succeeded and the exception has reached the caller
C13_Witness ==
  /\ j_pc = "raised" /\ j_exc = "Exception" /\ j_stop_result = "ok"
  /\ j_starts = 1 /\ j_stops = 1 /\ j_caller = "Exception"

\* the used segments that do not have the expected size
Deviating ==
  {i \in 1..Len(commitlogs) :
     /\ ~NotYetUsed(commitlogs[i], segment_size_in_mb * MB)
     /\ ~ExpectedSize(commitlogs[i], segment_size_in_mb * MB, compressed)}

\* C14: _segment_size_test passes only if at most one used segment deviates
\* from the expected size and that one does not exceed the configured
\* segment size; with some file listed, it passes in every such case.
C14_OneSmallerSegment ==
  /\ seg_result = "pass" =>
       /\ Cardinality(Deviating) <= 1
       /\ \A i \in Deviating : commitlogs[i] <= segment_size_in_mb * MB
  /\ seg_result = "AssertionError" =>
       \/ commitlogs = <<>>
       \/ Cardinality(Deviating) >= 2
       \/ \E i \in Deviating : commitlogs[i] > segment_size_in_mb * MB

\* the check has passed over a list with one smaller used segment and
\* another used segment of the expected size
C14_Witness ==
  /\ seg_result = "pass"
  /\ Cardinality(Deviating) = 1
  /\ \E i \in 1..Len(commitlogs) :
       /\ i \notin Deviating
       /\ ~NotYetUsed(commitlogs[i], segment_size_in_mb * MB)

\* the test has got past its assertion on node1.is_running()
PastAssertRunning ==
  \/ cl_pc \in {"after_write", "after_read", "restore_perms", "passed"}
  \/ cl_result = "passed"

\* C15: once the failure is provoked and the test has got past its assertion
\* on is_running, node1 is running under the policies stop, stop_commit and
\* ignore and is not running under die.
C15_RunningUnlessDie ==
  PastAssertRunning =>
    /\ cl_perms = "none" \/ cl_pc \in {"passed", "tearDown", "done"}
    /\ cl_running <=> policy \in {"stop", "stop_commit", "ignore"}

\* die_failure_policy_test has passed: node1 is not running
C15_Witness ==
  /\ policy = "die" /\ cl_result = "passed" /\ ~cl_running

\* the tags whose version belongs to the series major.minor of ver
InSeries(ver) == {t \in tags : t.sep = "." /\ t.major = ver[1] /\ t.minor = ver[2]}

\* t ranks higher than r, both of one series
RanksHigher(t, r) ==
  \/ t.patch > r.patch
  \/ t.patch = r.patch /\ t.nick = "" /\ r.nick # ""

\* C16: latest_tag_matching returns a tag of the series of ver_tuple that no
\* tag of the series ranks higher than, and None when the series has no tag.
C16_LatestOfSeries ==
  lt_pc = "returned" =>
    /\ InSeries(ver_tuple) = {} <=> latest = <<>>
    /\ latest # <<>> =>
         /\ latest[1] \in InSeries(ver_tuple)
         /\ \A t \in InSeries(ver_tuple) : ~RanksHigher(t, latest[1])

\* process p has been started
Started(p) == pstate[p] # "new"

\* the last _wait_until_queue_condition returned after it observed
\* WaitForRowcount or more entries on the to_verify_queue of pipeline pl
Primed(pl) ==
  /\ wq_queue = pl /\ wq_opfunc = "ge"
  /\ wq_result = "returned" /\ wq_observed = "condition"
  /\ qsize >= WaitForRowcount

\* no upgrade_to_version has been called and no node has been touched
NoNodeUpgraded ==
  /\ u_pc = "idle"
  /\ \A n \in Nodes : ~drained[n] /\ install_dir[n] = 1

\* the wait for rows written ran out of time
PrimingTimedOut ==
  wq_opfunc = "ge" /\ wq_result \in {"RuntimeError", "UnboundLocalError"}

\* C17: with qsize readable, the verifier of a pipeline is started only after
\* its to_verify_queue was observed to hold at least wait_for_rowcount entries,
\* the rolling scenario upgrades no node before both verifiers are started, and
\* after a wait that ran out of time the verifier of that pipeline is not
\* started and no node is upgraded.
C17_VerifierAfterPriming ==
  /\ [][(rolling /\ qsize_supported) =>
          \A pl \in Pipelines :
            (~Started(VerifierOf(pl)) /\ Started(VerifierOf(pl))') => Primed(pl)]_vars
  /\ []((rolling /\ qsize_supported /\ ~NoNodeUpgraded) =>
          \A pl \in Pipelines : Started(VerifierOf(pl)))
  /\ []((rolling /\ qsize_supported /\ PrimingTimedOut) =>
          ~Started(VerifierOf(wq_queue)) /\ NoNodeUpgraded)

\* a node is being upgraded under both primed pipelines
C17_Witness ==
  /\ rolling /\ qsize_supported
  /\ m_pc = "in_upgrade" /\ drained[1]
  /\ \A pl \in Pipelines : Started(VerifierOf(pl))

\* the subprocesses that run data_checker or counter_checker
Checkers == {p \in Procs : target[p] \in CheckerFunctions}

\* subprocess p takes a step of its function from position at (it is neither
\* stopped by its SIGTERM handler nor killed in this step)
StepsFrom(p, at) ==
  /\ IsAlive(p) /\ ppc[p] = at
  /\ ppc'[p] # at
  /\ pstate'[p] \notin {"exited", "killed"}

\* C18: a checker that finds verification_done_queue full drops the key and
\* goes on, alive: data_checker to its comparison, counter_checker (which has
\* compared already) to the next entry; the put never blocks and the queue
\* never holds more than its maxsize.
C18_FullQueueDropsKey ==
  /\ [](\A pl \in Pipelines :
          Len(verification_done_queue[pl]) <= VerificationDoneMaxsize)
  /\ [](\A p \in Checkers :
          (IsAlive(p) /\ ppc[p] = "put_done") =>
            ENABLED <<DataCheckerPutDone(p) \/ CounterCheckerPutDone(p)>>_vars)
  /\ [][\A p \in Checkers :
          (/\ StepsFrom(p, "put_done")
           /\ Len(verification_done_queue[PipelineOf(p)]) >= VerificationDoneMaxsize)
          => /\ pstate'[p] = "alive"
             /\ verification_done_queue' = verification_done_queue
             /\ to_verify_queue' = to_verify_queue
             /\ IF target[p] = "data_checker"
                THEN ppc'[p] = "assert"
                ELSE /\ ppc'[p] = "get"
                     /\ <<PipelineOf(p), plocal[p].key, plocal[p].val>> \in compared]_vars

\* data_checker has dropped its key on a full queue and is about to compare
C18_Witness ==
  \E p \in Checkers :
    /\ target[p] = "data_checker" /\ IsAlive(p) /\ ppc[p] = "assert"
    /\ Len(verification_done_queue[PipelineOf(p)]) >= VerificationDoneMaxsize
    /\ <<PipelineOf(p), plocal[p].key, plocal[p].val>> \notin offered

\* C19: a checker that finds to_verify_queue empty sleeps and polls again; with
\* the writer terminated, a live checker takes every entry that is on the queue.
C19_CheckerKeepsPolling ==
  /\ [][\A p \in Checkers :
          /\ (StepsFrom(p, "get") /\ to_verify_queue[PipelineOf(p)] = <<>>)
               => (pstate'[p] = "alive" /\ ppc'[p] = "sleep")
          /\ StepsFrom(p, "sleep") => (pstate'[p] = "alive" /\ ppc'[p] = "get")]_vars
  /\ \A p \in {"verifier", "count_verifier"} : \A n \in 1..MaxWrites :
       (/\ p \in Checkers /\ IsAlive(p)
        /\ ~IsAlive(WriterOf(PipelineOf(p)))
        /\ Len(to_verify_queue[PipelineOf(p)]) = n)
       ~> (Len(to_verify_queue[PipelineOf(p)]) < n \/ ~IsAlive(p))

\* the writer has ended, the checker is asleep after an empty poll and an entry
\* is on the queue
C19_Witness ==
  \E p \in Checkers :
    /\ IsAlive(p) /\ ppc[p] = "sleep"
    /\ pstate[WriterOf(PipelineOf(p))] \in {"exited", "raised"}
    /\ to_verify_queue[PipelineOf(p)] # <<>>

\* C20: within one upgrade_to_version, an install directory is changed only
\* when every node to be upgraded is drained, seen DRAINED and stopped; the
\* topology files are rewritten when all these install directories are set and
\* none of these nodes has been started, and a node is started only after the
\* rewrite; upgradesstables runs on a node that is running the new version.
C20_StepsOrdered ==
  [][m_pc = "in_upgrade" =>
       /\ install_dir' # install_dir =>
            \A n \in Range(u_nodes) : drained[n] /\ seen_drained[n] /\ ~running[n]
       /\ topology_writes' # topology_writes =>
            \A n \in Range(u_nodes) : install_dir[n] = u_tag /\ ~running[n]
       /\ \A n \in Nodes :
            /\ (~running[n] /\ running'[n]) =>
                 /\ topology_writes >= 1
                 /\ \A k \in Range(u_nodes) : install_dir[k] = u_tag
            /\ sstables_ver'[n] # sstables_ver[n] =>
                 running[n] /\ node_ver[n] = u_tag]_vars

\* a call for two or more nodes has returned with their sstables upgraded
C20_Witness ==
  /\ m_pc = "upgraded" /\ Len(u_nodes) >= 2 /\ topology_writes = 1
  /\ \A n \in Range(u_nodes) : running[n] /\ sstables_ver[n] = u_tag

\* the positions of file i the corruption step is to change: the CRC field,
\* and in test_compression_error the class name as well
ToChange(i) ==
  LET f == cf_orig[i]
      at == IF UnpackInt(SubSeq(f, 1, 4)) >= 5
            THEN 14 + UnpackShort(SubSeq(f, 13, 14)) ELSE 12
  IN {at + k : k \in 1..4}
     \cup (IF cf_test = "compression_error"
           THEN {k \in 1..at : f[k] = LZ4Compressor} ELSE {})

\* C21: when the corruption loop is through, every file has the length it had
\* and differs from what it was only in its CRC field and, in
\* test_compression_error, in the compressor class name.
C21_OnlyHeaderFieldsChange ==
  cf_pc = "done" =>
    \A i \in 1..Len(cf_orig) :
      /\ Len(cf_disk[i]) = Len(cf_orig[i])
      /\ \A k \in 1..Len(cf_orig[i]) :
           k \notin ToChange(i) => cf_disk[i][k] = cf_orig[i][k]

\* C22: after _change_commitlog_perms(mod) has returned, the commitlog
\* directory and every file in it have mode mod.
C22_AllHaveMode ==
  cp_pc = "returned" =>
    /\ cp_dir = cp_mod
    /\ \A i \in 1..Len(cp_files) : cp_files[i] = cp_mod

\* C23: handle_notification of a waiter with a keyspace filter neither appends
\* nor sets the event for a notification that names another keyspace; every
\* other notification, of whichever type, is appended to self.notifications
\* at its end, and the event is set after the append.
C23_FiltersOnlyOtherKeyspace ==
  /\ [][\A kind \in NotificationKinds :
          LET n == [id |-> pushed_count + 1, type |-> kind.type,
                    keyspace |-> kind.keyspace]
          IN  HandleNotification(n) =>
                IF keyspace # "none" /\ kind.keyspace \notin {"absent", keyspace}
                THEN h_pc' = "idle"
                ELSE h_pc' = "append" /\ h_notification' = n]_vars
  /\ [][(h_pc = "append" /\ h_pc' # h_pc) =>
          /\ notifications' = Append(notifications, h_notification)
          /\ event' = event /\ h_pc' = "set"]_vars
  /\ [][(h_pc = "set" /\ h_pc' # h_pc) => event']_vars
  /\ [][(h_pc = "idle" /\ h_pc' = "idle") =>
          (event' => event) /\ Len(notifications') <= Len(notifications)]_vars

\* a started subprocess that is no longer alive
Died(p) == pstate[p] \notin {"new", "alive"}

\* C24: in a rolling upgrade, when the upgrade of a node has returned with one
\* of the four subprocesses dead, the check that follows raises RuntimeError;
\* a dead subprocess stays dead, and once the scenario has raised no further
\* node is drained, upgraded or started and the scenario only goes on to
\* tearDown, never to its successful end.
C24_DeathStopsUpgrade ==
  /\ [][(rolling /\ m_pc = "check_on_subprocs" /\ m_pc' # m_pc
           /\ \E p \in Procs : Died(p)) =>
          (m_exc' = "RuntimeError" /\ m_pc' = "tearDown")]_vars
  /\ [][\A p \in Procs : Died(p) => pstate'[p] \notin {"new", "alive"}]_vars
  /\ [][m_exc # "none" =>
          /\ m_exc' = m_exc
          /\ drained' = drained /\ install_dir' = install_dir
          /\ \A n \in Nodes : ~running[n] => ~running'[n]
          /\ u_pc' \in {u_pc, "idle"}]_vars
  /\ [](m_exc # "none" => m_pc \in {"tearDown", "torn_down"})

\* the check after the first node of the upgrade has raised: node 1 runs the
\* new version, nodes 2 and 3 still run the old one
C24_Witness ==
  /\ rolling /\ m_exc = "RuntimeError" /\ m_pc = "tearDown"
  /\ m_node = 1 /\ m_tag = 2
  /\ running[1] /\ node_ver[1] = 2
  /\ \A n \in {2, 3} : running[n] /\ node_ver[n] = 1 /\ ~drained[n]
  /\ \E p \in Procs : pstate[p] = "raised"

\* subprocess p holds key k while it works on it: a writer from drawing the
\* key to putting it on to_verify_queue, a checker from taking the entry to
\* putting the key on verification_done_queue
Holds(p, k) ==
  /\ IsAlive(p) /\ plocal[p].key = k
  /\ \/ target[p] = "data_writer" /\ ppc[p] \in {"execute", "put"}
     \/ target[p] = "data_checker" /\ ppc[p] \in {"execute", "put_done"}

\* the copies of key k on the queues and in the hands of the subprocesses
Copies(k) ==
  Cardinality({<<pl, i>> \in Pipelines \X (1..nwrites) :
                 i <= Len(to_verify_queue[pl]) /\ to_verify_queue[pl][i][1] = k})
  + Cardinality({<<pl, i>> \in Pipelines \X (1..nwrites) :
                   i <= Len(verification_done_queue[pl])
                   /\ verification_done_queue[pl][i] = k})
  + Cardinality({p \in Procs : Holds(p, k)})

DuringRolling == rolling /\ m_pc \notin {"setup", "tearDown", "torn_down"}

\* node n does not serve requests: it is stopped, or drained and not restarted
Down(n) == ~running[n] \/ drained[n]

\* the versions the running nodes are on
RunningVersions == {node_ver[n] : n \in {x \in Nodes : running[x]}}

\* C26: during a rolling upgrade at most one of the three nodes is down, so
\* two are up; a node is taken down only while every other node is up, the
\* nodes before it on the version being upgraded to and the nodes after it on
\* the version before; and the running nodes are on at most two versions,
\* next to each other on the upgrade path.
C26_OneNodeDown ==
  /\ [](DuringRolling =>
          /\ Cardinality({n \in Nodes : Down(n)}) <= 1
          /\ Cardinality({n \in Nodes : ~Down(n)}) >= 2
          /\ Cardinality(RunningVersions) <= 2
          /\ \A a, b \in RunningVersions : a - b <= 1)
  /\ [][\A n \in Nodes :
          (DuringRolling /\ ~Down(n) /\ (~running'[n] \/ drained'[n])
             /\ m_pc' \notin {"tearDown", "torn_down"}) =>
            \A o \in Nodes \ {n} :
              /\ ~Down(o)
              /\ node_ver[o] = IF o < n THEN m_tag ELSE m_tag - 1]_vars

\* the second upgrade of the path has stopped node 2: node 1 runs the third
\* version and node 3 the second
C26_Witness ==
  /\ DuringRolling /\ m_tag = 3
  /\ ~running[2]
  /\ running[1] /\ node_ver[1] = 3
  /\ running[3] /\ node_ver[3] = 2

\* C27: a call of wait_for_notifications that began with fewer than
\* num_notifications notifications held is never blocked in event.wait with
\* the event clear once the num_notifications-th has been appended and its
\* handler has returned; and a call that returns after that append returns at
\* least num_notifications entries.
C27_NoLostWakeup ==
  /\ [](~ /\ t_pc = "event_wait" /\ ~event /\ h_pc # "set"
          /\ Len(notifications) >= num_notifications)
  /\ [][(InWaitForNotifications /\ ~InWaitForNotifications'
           /\ Len(notifications) >= num_notifications) =>
          Len(returned') >= num_notifications]_vars

\* the call has returned two notifications, the second of them pushed during
\* the call, before its deadline
C27_Witness ==
  /\ t_pc = "idle" /\ num_notifications = 2 /\ pushed_count = 2
  /\ Len(returned) = 2
  /\ clock < deadline

\* C28: when clear_notifications returns, self.notifications is empty unless
\* a handler that has appended is about to set the event: no notification is
\* left in the list with the event clear and nobody about to set it.
C28_ClearLosesNoWakeup ==
  [][(t_pc = "clear_event" /\ t_pc' # t_pc) =>
       (notifications' = <<>> \/ event' \/ h_pc' = "set")]_vars

\* C29: _increment_counters issues an increment only while fewer than 100
\* increments have timed out; and the expected count of every counter is the
\* number of its increments that completed.
C29_StopsAtLimit ==
  /\ [][ic_i' = ic_i + 1 => fail_count < FailLimit]_vars
  /\ [](\A c \in Keys(expected_counts) : expected_counts[c] = completed[c])

\* C30: when the checks after an upgrade have passed, row_values is {1..n},
\* every row was written once and read back on every node, and every counter
\* incremented since the scenario began was compared.
C30_ChecksCoverEverything ==
  /\ [](/\ row_values = 1..Cardinality(row_values)
        /\ \A x \in RowKeys : cf_writes[x] = IF x \in row_values THEN 1 ELSE 0)
  /\ [][(pd_pc = "check_counters" /\ pd_pc' \in {"write_values", "done"}) =>
          /\ rows_read' = Nodes \X row_values
          /\ Keys(completed) \subseteq counters_compared']_vars

====
